---- MODULE Spec2Model ----
(***************************************************************************)
(* End-to-end encrypted chat: the envelope layer of the client (Chat,      *)
(* Analytics, the key provider) and the relay it talks to (the user_keys   *)
(* and messages tables, the encrypted-files bucket).                       *)
(*                                                                         *)
(* Cryptography is symbolic.  A random value is a fresh number; an AES-GCM *)
(* ciphertext is a term that remembers the key, the nonce and the          *)
(* plaintext it was made from and decrypts only under that key and nonce;  *)
(* a changed byte string is a term that equals no untouched one.  Text     *)
(* codecs (UTF-8, base64) are modelled by what they do to the values that  *)
(* pass through them.                                                      *)
(***************************************************************************)
EXTENDS Integers, Sequences, FiniteSets, TLC

VARIABLES
    localStorage,   \* per user: the JSON stored under e2e_private_keys_<userId>
    user_keys,      \* relay: the user_keys table, one row per user
    keys,           \* per client: CryptoKeysProvider's keys state
    recipient,      \* per client: Chat's recipient state (a user_keys row)
    chatId,         \* per client: Chat's chatId state
    chats,          \* relay: the chats table (room ids)
    messages,       \* relay: the messages table, in insertion order
    sent,           \* for each row of messages, the text its sender sealed in it
    sentFile,       \* for each row of messages, the file its sender selected, or None
    storage,        \* relay: objects of the encrypted-files bucket
    nextRand,       \* number of random values drawn so far (crypto.getRandomValues, generateKey)
    encLog,         \* every (key, nonce) pair a payload AES-GCM encryption has used
    reused,         \* the pairs of encLog that more than one encryption has used
    benchRuns,      \* number of benchmark runs so far
    backupFile,     \* the sealed backup file last exported, with what was sealed in it
    chatMessages,   \* per client: Chat's messages state, the list shown
    wrapLog,        \* every KEK an agreement-path wrap has used
    wrapReused,     \* the KEKs of wrapLog that more than one wrap has used
    user,           \* per client: CryptoKeysProvider's user state
    loading,        \* per client: CryptoKeysProvider's loading state
    runs,           \* per client: the loadOrGenerateKeys calls that are waiting at an await
    generations,    \* per user: how often a client generated the two keypairs
    sealLog,        \* the salt and the nonce of every backup seal so far, in order
    chatView,       \* for each user, how far the effect that opens the chat's list has got
    creating,       \* the users whose query for the chat found none and whose insert is on its way
    last            \* what the most recent handler did and returned

vars == <<localStorage, user_keys, keys, recipient, chatId, chats, messages, sent, sentFile,
          storage, nextRand, encLog, reused, benchRuns, backupFile,
          chatMessages,
          wrapLog,
          wrapReused,
          user,
          loading,
          runs,
          generations,
          sealLog,
          chatView,
          creating, last>>

-----------------------------------------------------------------------------
(* Bounds of the model *)

MaxMsgs == 1        \* rows the messages table may hold
MaxRand == 11       \* random values the clients may draw in one behaviour
MaxBench == 1       \* benchmark runs

Users == {"u1", "u2"}

None == [none |-> TRUE]
IsNone(x) == "none" \in DOMAIN x

Other(u) == CHOOSE v \in Users : v # u

\* the list of a chat page whose effect has not run: loadMessages not called,
\* no channel; snap: the rows the query returned; next: the row the channel
\* delivers next
ClosedView == [load |-> "idle", snap |-> 0, joined |-> FALSE, next |-> 0]

-----------------------------------------------------------------------------
(* Strings.  A string is a sequence of UTF-16 code units; the model keeps   *)
(* two letters ("a", "b"), U+0000 ("NUL"), the space ("sp"), U+FEFF        *)
(* ("BOM"), an unpaired                                                     *)
(* surrogate ("LS"), U+FFFD ("FFFD"), and the tokens of the file caption:   *)
(* U+1F4CE ("clip"), the parentheses and the two formatted sizes.           *)

\* UTF-8 bytes of one token
Utf8Len(c) ==
    CASE c \in {"a", "b", "NUL", "sp", "(", ")"} -> 1
      [] c = "clip" -> 4
      [] c = "3 B" -> 3
      [] c = "3.81 MB" -> 7
      [] OTHER -> 3

RECURSIVE Utf8Bytes(_)
Utf8Bytes(s) == IF s = <<>> THEN 0 ELSE Utf8Len(Head(s)) + Utf8Bytes(Tail(s))

WhiteSpace == {"sp", "BOM"}

RECURSIVE trimStart(_)
trimStart(s) ==
    IF s # <<>> /\ Head(s) \in WhiteSpace THEN trimStart(Tail(s)) ELSE s

RECURSIVE trimEnd(_)
trimEnd(s) ==
    IF s # <<>> /\ s[Len(s)] \in WhiteSpace
    THEN trimEnd(SubSeq(s, 1, Len(s) - 1)) ELSE s

trim(s) == trimEnd(trimStart(s))

\* new TextEncoder().encode(str): an unpaired surrogate is encoded as U+FFFD
stringToArrayBuffer(str) ==
    [utf8 |-> [i \in 1..Len(str) |-> IF str[i] = "LS" THEN "FFFD" ELSE str[i]]]

\* new TextDecoder().decode(buffer): ignoreBOM is false, a leading U+FEFF is dropped
arrayBufferToString(buffer) ==
    IF "utf8" \in DOMAIN buffer
    THEN IF buffer.utf8 # <<>> /\ Head(buffer.utf8) = "BOM"
         THEN Tail(buffer.utf8) ELSE buffer.utf8
    ELSE <<"FFFD">>

-----------------------------------------------------------------------------
(* Byte strings and their base64 text *)

GcmTagLen == 16
IvLen == 12
SaltLen == 16
AesKeyLen == 32
RsaModulusLen == 512

Flipped(b) == "flipOf" \in DOMAIN b

\* b with one bit changed, in its first 12 bytes ("head") or after them ("tail")
FlipBit(b, pos) == [flipOf |-> b, pos |-> pos]

RECURSIVE ByteLen(_)
ByteLen(b) ==
    IF Flipped(b) THEN ByteLen(b.flipOf)
    ELSE IF "utf8" \in DOMAIN b THEN Utf8Bytes(b.utf8)
    ELSE IF "fileId" \in DOMAIN b THEN b.size
    ELSE IF "rnd" \in DOMAIN b THEN b.len
    ELSE IF "padOf" \in DOMAIN b THEN ByteLen(b.padOf) + 1
    ELSE IF "sliceOf" \in DOMAIN b THEN IvLen
    ELSE IF "pt" \in DOMAIN b THEN ByteLen(b.pt) + GcmTagLen
    ELSE IF "kek" \in DOMAIN b THEN AesKeyLen + GcmTagLen
    ELSE IF "rsa" \in DOMAIN b THEN RsaModulusLen
    ELSE 0

\* btoa over the bytes: canonical text, no stray bits, alphabet characters only
arrayBufferToBase64(buffer) == [b64 |-> buffer, slack |-> FALSE, bad |-> FALSE]

\* length of the base64 text of n bytes
Base64Len(n) == 4 * ((n + 2) \div 3)

\* atob: throws on a character outside the alphabet; the bits of the last
\* character that belong to no byte are discarded without a check
base64ToArrayBuffer(base64) ==
    IF base64.bad THEN [ok |-> FALSE] ELSE [ok |-> TRUE, bytes |-> base64.b64]

\* SHA-256 of a text, as hex: a collision-free function of the text
sha256Hex(data) == [sha |-> data]

-----------------------------------------------------------------------------
(* Random values *)

generateIV(n) == [rnd |-> n, len |-> IvLen]

\* a salt that is the same for every wrap
generateSaltOnce(n) == [rnd |-> 0, len |-> SaltLen]

generateSalt(n) == [rnd |-> n, len |-> SaltLen]

\* an AES-GCM key is named by the number drawn for it
genAesGcmKey(n) == n

\* b followed by one zero byte
ZeroPad(b) == [padOf |-> b]

\* salt.slice(0, 12)
RECURSIVE slice12(_)
slice12(salt) ==
    IF "padOf" \in DOMAIN salt THEN slice12(salt.padOf)
    ELSE IF Flipped(salt)
    THEN IF salt.pos = "tail" THEN [sliceOf |-> salt.flipOf]
         ELSE FlipBit([sliceOf |-> salt.flipOf], "head")
    ELSE [sliceOf |-> salt]

-----------------------------------------------------------------------------
(* AES-GCM *)

aesGcmEncrypt(key, iv, data) == [ctkey |-> key, ctiv |-> iv, pt |-> data]

aesGcmDecrypt(key, iv, ciphertext) ==
    IF /\ ~Flipped(ciphertext)
       /\ "pt" \in DOMAIN ciphertext
       /\ ciphertext.ctkey = key
       /\ ciphertext.ctiv = iv
    THEN [ok |-> TRUE, bytes |-> ciphertext.pt]
    ELSE [ok |-> FALSE]

-----------------------------------------------------------------------------
(* Identity keys and their JWK form *)

\* crypto.subtle.generateKey: the pair is named by the number drawn for it
generateECDHKeypair(n) == [alg |-> "ECDH", kid |-> n]

generateRSAKeypair(n) == [alg |-> "RSA-OAEP", kid |-> n]

\* the two CryptoKey objects of a generated pair
publicKey(kp) == [alg |-> kp.alg, kid |-> kp.kid, private |-> FALSE]

privateKey(kp) == [alg |-> kp.alg, kid |-> kp.kid, private |-> TRUE]

exportPublicJwk(kp) == [kty |-> kp.alg, kid |-> kp.kid, d |-> FALSE, wellFormed |-> TRUE]

exportPrivateJwk(kp) == [kty |-> kp.alg, kid |-> kp.kid, d |-> TRUE, wellFormed |-> TRUE]

\* crypto.subtle.importKey("jwk", ...): throws on a malformed or mismatched key
importJwk(jwk, alg, private) ==
    IF jwk.wellFormed /\ jwk.kty = alg /\ jwk.d = private
    THEN [ok |-> TRUE, key |-> [alg |-> alg, kid |-> jwk.kid, private |-> private]]
    ELSE [ok |-> FALSE]

importECDHPublicJwk(jwk) == importJwk(jwk, "ECDH", FALSE)

importECDHPrivateJwk(jwk) == importJwk(jwk, "ECDH", TRUE)

importRSAPublicJwk(jwk) == importJwk(jwk, "RSA-OAEP", FALSE)

importRSAPrivateJwk(jwk) == importJwk(jwk, "RSA-OAEP", TRUE)

\* JSON.stringify.  A JWK is written member by member, in the order exportKey
\* gave them; a key bundle is one token, the text of the value (an unpaired
\* surrogate inside a string is written as an escape, so the text is always
\* well formed)
JSONstringify(v) ==
    IF "kty" \in DOMAIN v
    THEN <<"{", "kty", v.kty, "kid", ToString(v.kid), "d", ToString(v.d),
           "wellFormed", ToString(v.wellFormed), "}">>
    ELSE <<ToString(v)>>

\* the text the fingerprint is the hash of: the agreement key's JSON text
\* followed by the encapsulation key's
FingerprintData(ecdhPublicJwk, rsaPublicJwk) ==
    JSONstringify(ecdhPublicJwk) \o JSONstringify(rsaPublicJwk)

\* the HMAC key a byte string shorter than one block stands for: the string
\* padded with zero bytes, so zero bytes at its end make no difference
RECURSIVE HmacKeyOfBytes(_)
HmacKeyOfBytes(b) == IF "padOf" \in DOMAIN b THEN HmacKeyOfBytes(b.padOf) ELSE b

\* ECDH deriveBits, then HKDF-SHA-256 with the salt and the info string; HKDF
\* uses the salt as the key of an HMAC
deriveKEK_ECDH(senderPriv, recipientPub, salt, info) ==
    [shared |-> {senderPriv.kid, recipientPub.kid}, hkdfSalt |-> HmacKeyOfBytes(salt),
     info |-> info]

-----------------------------------------------------------------------------
(* Key wrapping *)

\* a wrap that takes a nonce of its own instead of the head of the salt
wrapAesKeyWithECDHOwnNonce(aesKey, senderPrivECDH, recipientPubECDH, salt) ==
    [kek |-> deriveKEK_ECDH(senderPrivECDH, recipientPubECDH, salt, "wrap"),
     wiv |-> generateIV(0), wkey |-> aesKey]

wrapAesKeyWithECDH(aesKey, senderPrivECDH, recipientPubECDH, salt) ==
    [kek |-> deriveKEK_ECDH(senderPrivECDH, recipientPubECDH, salt, "wrap"),
     wiv |-> slice12(salt), wkey |-> aesKey]

unwrapAesKeyWithECDH(wrappedKey, recipientPrivECDH, senderPubECDH, salt) ==
    IF /\ ~Flipped(wrappedKey)
       /\ "kek" \in DOMAIN wrappedKey
       /\ wrappedKey.kek = deriveKEK_ECDH(recipientPrivECDH, senderPubECDH, salt, "wrap")
       /\ wrappedKey.wiv = slice12(salt)
    THEN [ok |-> TRUE, key |-> wrappedKey.wkey]
    ELSE [ok |-> FALSE]

wrapAesKeyWithRSA(aesKey, recipientRsaPub) ==
    [rsa |-> recipientRsaPub.kid, wkey |-> aesKey]

unwrapAesKeyWithRSA(wrappedKey, recipientRsaPriv) ==
    IF /\ ~Flipped(wrappedKey)
       /\ "rsa" \in DOMAIN wrappedKey
       /\ wrappedKey.rsa = recipientRsaPriv.kid
    THEN [ok |-> TRUE, key |-> wrappedKey.wkey]
    ELSE [ok |-> FALSE]

-----------------------------------------------------------------------------
(* Inputs of the handlers *)

\* texts typed into the message box
Texts == {<<"a">>, <<"BOM", "a">>, <<"LS">>}

SmallFile == [fileId |-> 1, name |-> <<"a">>, type |-> "image/png", size |-> 3]
BigFile == [fileId |-> 2, name |-> <<"a", "a">>, type |-> "video/mp4", size |-> 4000000]

\* files handleFileSelect accepts (at most 10 MiB)
Files == {SmallFile, BigFile}

InlineLimit == 5 * 1024 * 1024

\* what the bucket answers: the first upload, createBucket, the second upload
UploadEnv ==
    {<<"ok", "-", "-">>, <<"other", "-", "-">>, <<"notfound", "err", "-">>,
     <<"notfound", "ok", "ok">>, <<"notfound", "ok", "rls">>, <<"notfound", "ok", "other">>}

NullUrl == [null |-> TRUE]

\* [user.id, recipientId].sort().join('-')
roomId(a, b) == IF a = "u1" \/ (a = b) THEN <<a, b>> ELSE <<b, a>>

\* the sizes of the two files, as formatFileSize prints them
formatFileSize(bytes) == IF bytes < 1024 THEN "3 B" ELSE "3.81 MB"

\* the text sent with a file: the paper clip, the name, the formatted size
caption(f) == <<"clip", "sp">> \o f.name \o <<"sp", "(", formatFileSize(f.size), ")">>

-----------------------------------------------------------------------------
(* The initial state: nobody has signed in, the relay is empty *)

Init ==
    /\ localStorage = [u \in Users |-> None]
    /\ user_keys = [u \in Users |-> None]
    /\ keys = [u \in Users |-> None]
    /\ recipient = [u \in Users |-> None]
    /\ chatId = [u \in Users |-> None]
    /\ chats = {}
    /\ messages = <<>>
    /\ sent = <<>>
    /\ sentFile = <<>>
    /\ storage = {}
    /\ nextRand = 0
    /\ encLog = {}
    /\ reused = {}
    /\ benchRuns = 0
    /\ backupFile = None
    /\ chatMessages = [u \in Users |-> <<>>]
    /\ wrapLog = {}
    /\ wrapReused = {}
    /\ user = [u \in Users |-> None]
    /\ loading = [u \in Users |-> TRUE]
    /\ runs = [u \in Users |-> {}]
    /\ generations = [u \in Users |-> 0]
    /\ sealLog = <<>>
    /\ chatView = [u \in Users |-> ClosedView]
    /\ creating = {}
    /\ last = [op |-> "init"]

-----------------------------------------------------------------------------
(* CryptoKeysProvider.loadOrGenerateKeys *)

\* the branch that finds stored keys: import the four JWKs, set keys
LoadStoredKeys(u) ==
    LET parsed == localStorage[u]
        ecdhPrivate == importECDHPrivateJwk(parsed.ecdhPrivateJwk)
        rsaPrivate == importRSAPrivateJwk(parsed.rsaPrivateJwk)
        ecdhPublic == importECDHPublicJwk(parsed.ecdhPublicJwk)
        rsaPublic == importRSAPublicJwk(parsed.rsaPublicJwk)
    IN  /\ ~IsNone(localStorage[u])
        /\ keys' = [keys EXCEPT ![u] =
                IF ecdhPrivate.ok /\ rsaPrivate.ok /\ ecdhPublic.ok /\ rsaPublic.ok
                THEN [ecdhPrivate |-> ecdhPrivate.key, ecdhPublic |-> ecdhPublic.key,
                      rsaPrivate |-> rsaPrivate.key, rsaPublic |-> rsaPublic.key]
                ELSE keys[u]]
        /\ last' = [op |-> "loadKeys", user |-> u, generated |-> FALSE]
        /\ UNCHANGED <<localStorage, user_keys, recipient, chatId, chats, messages, sent, sentFile,
                       storage, nextRand, encLog, reused, benchRuns, backupFile, chatMessages,
                       wrapLog, wrapReused, user, loading, runs, generations, sealLog, chatView,
                       creating>>

\* display_name of a user_keys row: null, or a text
NullName == [null |-> TRUE]

\* upsert of the public keys: a new row has no display name, an existing row
\* keeps the columns the upsert does not name
Upserted(old, u, ecdhPublicJwk, rsaPublicJwk, fingerprint) ==
    [user_id |-> u,
     display_name |-> IF IsNone(old) THEN NullName ELSE old.display_name,
     ecdh_public_key_jwk |-> ecdhPublicJwk,
     rsa_public_key_jwk |-> rsaPublicJwk, fingerprint |-> fingerprint]

\* the branch that generates: two keypairs, the bundle to localStorage, the
\* public keys and the fingerprint to the user_keys table
GenerateKeys(u, upsertOk) ==
    LET ecdhKeyPair == generateECDHKeypair(nextRand + 1)
        rsaKeyPair == generateRSAKeypair(nextRand + 2)
        ecdhPublicJwk == exportPublicJwk(ecdhKeyPair)
        ecdhPrivateJwk == exportPrivateJwk(ecdhKeyPair)
        rsaPublicJwk == exportPublicJwk(rsaKeyPair)
        rsaPrivateJwk == exportPrivateJwk(rsaKeyPair)
        fingerprint == sha256Hex(FingerprintData(ecdhPublicJwk, rsaPublicJwk))
    IN  /\ IsNone(localStorage[u])
        /\ nextRand + 2 <= MaxRand
        /\ nextRand' = nextRand + 2
        /\ localStorage' = [localStorage EXCEPT ![u] =
                [ecdhPrivateJwk |-> ecdhPrivateJwk, rsaPrivateJwk |-> rsaPrivateJwk,
                 ecdhPublicJwk |-> ecdhPublicJwk, rsaPublicJwk |-> rsaPublicJwk]]
        /\ IF upsertOk
           THEN /\ user_keys' = [user_keys EXCEPT ![u] =
                        Upserted(user_keys[u], u, ecdhPublicJwk, rsaPublicJwk, fingerprint)]
                /\ keys' = [keys EXCEPT ![u] =
                        [ecdhPrivate |-> privateKey(ecdhKeyPair), ecdhPublic |-> publicKey(ecdhKeyPair),
                         rsaPrivate |-> privateKey(rsaKeyPair), rsaPublic |-> publicKey(rsaKeyPair)]]
           ELSE UNCHANGED <<user_keys, keys>>
        /\ generations' = [generations EXCEPT ![u] = @ + 1]
        /\ last' = [op |-> "loadKeys", user |-> u, generated |-> TRUE, before |-> user_keys[u]]
        /\ UNCHANGED <<recipient, chatId, chats, messages, sent, sentFile, storage, encLog, reused, benchRuns, backupFile,
                    chatMessages, wrapLog, wrapReused, user, loading, runs, sealLog, chatView,
                    creating>>

loadOrGenerateKeys(u) ==
    \/ LoadStoredKeys(u)
    \/ \E upsertOk \in BOOLEAN : GenerateKeys(u, upsertOk)

-----------------------------------------------------------------------------
(* Chat.loadRecipientAndChat *)

\* what the relay may answer for a user_keys row: the row, or the row with a
\* key that does not parse (the relay is not trusted)
Served(row) ==
    {row, [row EXCEPT !.ecdh_public_key_jwk.wellFormed = FALSE]}

loadRecipientAndChat(u) ==
    LET recipientId == Other(u) IN
    /\ ~IsNone(keys[u])
    /\ ~IsNone(user_keys[recipientId])
    /\ \E recipientData \in Served(user_keys[recipientId]) :
          recipient' = [recipient EXCEPT ![u] = recipientData]
    /\ chats' = chats \cup {roomId(u, recipientId)}
    /\ chatId' = [chatId EXCEPT ![u] = [room |-> roomId(u, recipientId)]]
    /\ last' = [op |-> "loadChat", user |-> u]
    /\ UNCHANGED <<localStorage, user_keys, keys, messages, sent, sentFile, storage, nextRand, encLog,
                   reused, benchRuns, backupFile, chatMessages, wrapLog, wrapReused, user,
                   loading, runs, generations, sealLog, chatView, creating>>

\* loadRecipientAndChat up to the answer of its query for the chat: the
\* recipient is set; a chat that is found is opened, for one that is not the
\* insert is sent
findChat(u) ==
    LET recipientId == Other(u)
        room == roomId(u, recipientId)
    IN  /\ ~IsNone(keys[u])
        /\ ~IsNone(user_keys[recipientId])
        /\ u \notin creating
        /\ \E recipientData \in Served(user_keys[recipientId]) :
              recipient' = [recipient EXCEPT ![u] = recipientData]
        /\ chatId' = IF room \in chats THEN [chatId EXCEPT ![u] = [room |-> room]] ELSE chatId
        /\ creating' = IF room \in chats THEN creating ELSE creating \cup {u}
        /\ last' = [op |-> "findChat", user |-> u, found |-> room \in chats]
        /\ UNCHANGED <<localStorage, user_keys, keys, chats, messages, sent, sentFile, storage,
                       nextRand, encLog, reused, benchRuns, backupFile, chatMessages, wrapLog,
                       wrapReused, user, loading, runs, generations, sealLog, chatView>>

\* the insert reaches the relay: room_id is unique, so the insert of a room
\* that is there by now fails, and the handler returns without a chat
createChat(u) ==
    LET room == roomId(u, Other(u))
        createError == room \in chats
    IN  /\ u \in creating
        /\ creating' = creating \ {u}
        /\ chats' = chats \cup {room}
        /\ chatId' = IF createError THEN chatId ELSE [chatId EXCEPT ![u] = [room |-> room]]
        /\ last' = [op |-> "createChat", user |-> u, createError |-> createError]
        /\ UNCHANGED <<localStorage, user_keys, keys, recipient, messages, sent, sentFile,
                       storage, nextRand, encLog, reused, benchRuns, backupFile, chatMessages,
                       wrapLog, wrapReused, user, loading, runs, generations, sealLog, chatView>>

-----------------------------------------------------------------------------
(* Chat.sendMessage *)

\* a fallback that keeps the agreement tag on the encapsulation-wrapped key
WrapWithFallbackKeepingTag(target, aesKey, senderPriv, recipientEcdhPub, recipientRsaPub, salt, ecdhThrows) ==
    [wrappedKey |-> IF ecdhThrows THEN wrapAesKeyWithRSA(aesKey, recipientRsaPub)
                    ELSE wrapAesKeyWithECDH(aesKey, senderPriv, recipientEcdhPub, salt),
     wrapAlg |-> "ECDH",
     calls |-> IF ecdhThrows
               THEN <<[target |-> target, path |-> "ECDH", threw |-> TRUE],
                      [target |-> target, path |-> "RSA-OAEP", threw |-> FALSE]>>
               ELSE <<[target |-> target, path |-> "ECDH", threw |-> FALSE]>>]

\* try wrapAesKeyWithECDH, catch, wrapAesKeyWithRSA.  ecdhThrows: WebCrypto
\* raises inside the derivation or the wrap.
WrapWithFallback(target, aesKey, senderPriv, recipientEcdhPub, recipientRsaPub, salt, ecdhThrows) ==
    IF ~ecdhThrows
    THEN [wrappedKey |-> wrapAesKeyWithECDH(aesKey, senderPriv, recipientEcdhPub, salt),
          wrapAlg |-> "ECDH",
          calls |-> <<[target |-> target, path |-> "ECDH", threw |-> FALSE]>>]
    ELSE [wrappedKey |-> wrapAesKeyWithRSA(aesKey, recipientRsaPub),
          wrapAlg |-> "RSA-OAEP",
          calls |-> <<[target |-> target, path |-> "ECDH", threw |-> TRUE],
                      [target |-> target, path |-> "RSA-OAEP", threw |-> FALSE]>>]

\* the KEK a wrapped key was wrapped under, if it came from the agreement path
KeksOf(wrappedKey) == IF "kek" \in DOMAIN wrappedKey THEN <<wrappedKey.kek>> ELSE <<>>

\* the file part of a send that takes the message's key for the file
SealFileUnderMessageKey(u, f, r, recipientEcdhPub, recipientRsaPub, ecdhThrows, up) ==
    LET fileArrayBuffer == [fileId |-> f.fileId, size |-> f.size]
        fileAesKey == genAesGcmKey(r + 4)
        fileIv == generateIV(r + 2)
        fileSalt == generateSalt(r + 3)
        encryptedFile == aesGcmEncrypt(fileAesKey, fileIv, fileArrayBuffer)
        w == WrapWithFallback("file", fileAesKey, keys[u].ecdhPrivate,
                              recipientEcdhPub, recipientRsaPub, fileSalt, ecdhThrows)
        fileName == [chat |-> chatId[u], ts |-> r, fname |-> f.name]
        encryptedBase64 == arrayBufferToBase64(encryptedFile)
        small == Base64Len(ByteLen(encryptedFile)) < InlineLimit
        fileMeta == [name |-> f.name, type |-> f.type, size |-> f.size,
                     iv |-> arrayBufferToBase64(fileIv),
                     salt |-> arrayBufferToBase64(fileSalt),
                     wrapped_key |-> arrayBufferToBase64(w.wrappedKey),
                     wrap_alg |-> w.wrapAlg]
        inlineMeta == [name |-> f.name, type |-> f.type, size |-> f.size,
                       iv |-> arrayBufferToBase64(fileIv),
                       salt |-> arrayBufferToBase64(fileSalt),
                       wrapped_key |-> arrayBufferToBase64(w.wrappedKey),
                       wrap_alg |-> w.wrapAlg,
                       encrypted_data_base64 |-> encryptedBase64,
                       storage_type |-> "inline"]
        object == [oname |-> fileName, body |-> encryptedFile]
        uploaded == \/ up[1] = "ok"
                    \/ ~small /\ up[1] = "notfound" /\ up[2] = "ok" /\ up[3] = "ok"
        inlined == up[1] # "ok" /\ small
    IN  [ok |-> uploaded \/ inlined,
         fileMeta |-> IF inlined THEN inlineMeta ELSE fileMeta,
         fileUrl |-> NullUrl,
         objects |-> IF uploaded THEN {object} ELSE {},
         calls |-> w.calls,
         encs |-> <<[key |-> fileAesKey, iv |-> fileIv]>>,
         keks |-> KeksOf(w.wrappedKey)]

\* the file part of a send (lines 450-603): encrypt, wrap, upload or inline.
\* r: random values drawn before; up: the bucket's answers.
SealFile(u, f, r, recipientEcdhPub, recipientRsaPub, ecdhThrows, up) ==
    LET fileArrayBuffer == [fileId |-> f.fileId, size |-> f.size]
        fileAesKey == genAesGcmKey(r + 1)
        fileIv == generateIV(r + 2)
        fileSalt == generateSalt(r + 3)
        encryptedFile == aesGcmEncrypt(fileAesKey, fileIv, fileArrayBuffer)
        w == WrapWithFallback("file", fileAesKey, keys[u].ecdhPrivate,
                              recipientEcdhPub, recipientRsaPub, fileSalt, ecdhThrows)
        fileName == [chat |-> chatId[u], ts |-> r, fname |-> f.name]
        encryptedBase64 == arrayBufferToBase64(encryptedFile)
        small == Base64Len(ByteLen(encryptedFile)) < InlineLimit
        fileMeta == [name |-> f.name, type |-> f.type, size |-> f.size,
                     iv |-> arrayBufferToBase64(fileIv),
                     salt |-> arrayBufferToBase64(fileSalt),
                     wrapped_key |-> arrayBufferToBase64(w.wrappedKey),
                     wrap_alg |-> w.wrapAlg]
        inlineMeta == [name |-> f.name, type |-> f.type, size |-> f.size,
                       iv |-> arrayBufferToBase64(fileIv),
                       salt |-> arrayBufferToBase64(fileSalt),
                       wrapped_key |-> arrayBufferToBase64(w.wrappedKey),
                       wrap_alg |-> w.wrapAlg,
                       encrypted_data_base64 |-> encryptedBase64,
                       storage_type |-> "inline"]
        object == [oname |-> fileName, body |-> encryptedFile]
        uploaded == \/ up[1] = "ok"
                    \/ ~small /\ up[1] = "notfound" /\ up[2] = "ok" /\ up[3] = "ok"
        inlined == up[1] # "ok" /\ small
    IN  [ok |-> uploaded \/ inlined,
         fileMeta |-> IF inlined THEN inlineMeta ELSE fileMeta,
         fileUrl |-> NullUrl,
         objects |-> IF uploaded THEN {object} ELSE {},
         calls |-> w.calls,
         encs |-> <<[key |-> fileAesKey, iv |-> fileIv]>>,
         keks |-> KeksOf(w.wrappedKey)]

\* the message part of a send with the hash taken over the plaintext
SealMessageHashingPlaintext(u, plaintext, r, recipientEcdhPub, recipientRsaPub, ecdhThrows, fileUrl, fileMeta) ==
    LET aesKey == genAesGcmKey(r + 1)
        iv == generateIV(r + 2)
        salt == generateSalt(r + 3)
        ciphertext == aesGcmEncrypt(aesKey, iv, plaintext)
        w == WrapWithFallback("msg", aesKey, keys[u].ecdhPrivate,
                              recipientEcdhPub, recipientRsaPub, salt, ecdhThrows)
        hash == sha256Hex(plaintext)
    IN  [messageData |->
            [chat_id |-> chatId[u], sender_id |-> u, recipient_id |-> Other(u),
             ciphertext_base64 |-> arrayBufferToBase64(ciphertext),
             iv_base64 |-> arrayBufferToBase64(iv),
             wrapped_key_base64 |-> arrayBufferToBase64(w.wrappedKey),
             wrap_alg |-> w.wrapAlg,
             salt_base64 |-> arrayBufferToBase64(salt),
             hash_hex |-> hash,
             file_url |-> fileUrl,
             file_meta |-> fileMeta],
         calls |-> w.calls,
         encs |-> <<[key |-> aesKey, iv |-> iv]>>,
         keks |-> KeksOf(w.wrappedKey)]

\* the message part of a send that encrypts the text under the derived KEK
\* when the wrap took the agreement path
SealMessageUnderKek(u, plaintext, r, recipientEcdhPub, recipientRsaPub, ecdhThrows, fileUrl, fileMeta) ==
    LET aesKey == genAesGcmKey(r + 1)
        iv == generateIV(r + 2)
        salt == generateSalt(r + 3)
        w == WrapWithFallback("msg", aesKey, keys[u].ecdhPrivate,
                              recipientEcdhPub, recipientRsaPub, salt, ecdhThrows)
        viaKek == "kek" \in DOMAIN w.wrappedKey
        ciphertext == IF viaKek THEN aesGcmEncrypt(w.wrappedKey.kek, iv, plaintext)
                      ELSE aesGcmEncrypt(aesKey, iv, plaintext)
        hash == sha256Hex(arrayBufferToBase64(ciphertext))
    IN  [messageData |->
            [chat_id |-> chatId[u], sender_id |-> u, recipient_id |-> Other(u),
             ciphertext_base64 |-> arrayBufferToBase64(ciphertext),
             iv_base64 |-> arrayBufferToBase64(iv),
             wrapped_key_base64 |-> arrayBufferToBase64(w.wrappedKey),
             wrap_alg |-> w.wrapAlg,
             salt_base64 |-> arrayBufferToBase64(salt),
             hash_hex |-> hash,
             file_url |-> fileUrl,
             file_meta |-> fileMeta],
         calls |-> w.calls,
         encs |-> IF viaKek THEN <<[key |-> w.wrappedKey.kek, iv |-> iv]>>
                  ELSE <<[key |-> aesKey, iv |-> iv]>>,
         keks |-> KeksOf(w.wrappedKey)]

\* the message part of a send (lines 607-641): encrypt, wrap, hash, build the row
SealMessage(u, plaintext, r, recipientEcdhPub, recipientRsaPub, ecdhThrows, fileUrl, fileMeta) ==
    LET aesKey == genAesGcmKey(r + 1)
        iv == generateIV(r + 2)
        salt == generateSalt(r + 3)
        ciphertext == aesGcmEncrypt(aesKey, iv, plaintext)
        w == WrapWithFallback("msg", aesKey, keys[u].ecdhPrivate,
                              recipientEcdhPub, recipientRsaPub, salt, ecdhThrows)
        hash == sha256Hex(arrayBufferToBase64(ciphertext))
    IN  [messageData |->
            [chat_id |-> chatId[u], sender_id |-> u, recipient_id |-> Other(u),
             ciphertext_base64 |-> arrayBufferToBase64(ciphertext),
             iv_base64 |-> arrayBufferToBase64(iv),
             wrapped_key_base64 |-> arrayBufferToBase64(w.wrappedKey),
             wrap_alg |-> w.wrapAlg,
             salt_base64 |-> arrayBufferToBase64(salt),
             hash_hex |-> hash,
             file_url |-> fileUrl,
             file_meta |-> fileMeta],
         calls |-> w.calls,
         encs |-> <<[key |-> aesKey, iv |-> iv]>>,
         keks |-> KeksOf(w.wrappedKey)]

SeqToSet(q) == {q[i] : i \in 1..Len(q)}

\* the elements a sequence holds more than once
Repeated(q) == {q[i] : i \in {j \in 2..Len(q) : \E k \in 1..(j - 1) : q[k] = q[j]}}

\* the log of (key, nonce) pairs after encryptions under the pairs used, of
\* which the pairs again were used more than once among them
Encrypted(used, again) ==
    /\ encLog' = encLog \cup used
    /\ reused' = reused \cup again \cup (used \cap encLog)

\* the log of KEKs after agreement-path wraps under the KEKs used, of which
\* the KEKs again were used more than once among them
Wrapped(used, again) ==
    /\ wrapLog' = wrapLog \cup used
    /\ wrapReused' = wrapReused \cup again \cup (used \cap wrapLog)

sendMessage(u, message, selectedFile, ecdhThrowsFile, ecdhThrowsMsg, up, insertOk) ==
    LET hasFile == ~IsNone(selectedFile)
        impE == importECDHPublicJwk(recipient[u].ecdh_public_key_jwk)
        impR == importRSAPublicJwk(recipient[u].rsa_public_key_jwk)
        f == SealFile(u, selectedFile, nextRand, impE.key, impR.key, ecdhThrowsFile, up)
        fileOk == ~hasFile \/ f.ok
        text == IF hasFile THEN caption(selectedFile) ELSE message
        r == IF hasFile THEN nextRand + 3 ELSE nextRand
        m == SealMessage(u, stringToArrayBuffer(text),
                         r, impE.key, impR.key, ecdhThrowsMsg,
                         IF hasFile THEN f.fileUrl ELSE NullUrl,
                         IF hasFile THEN f.fileMeta ELSE None)
        result(ok, calls, encs) ==
            [op |-> "send", user |-> u, message |-> message, selectedFile |-> selectedFile,
             insertOk |-> insertOk, ok |-> ok, calls |-> calls, encs |-> encs, cleared |-> ok,
             up |-> up]
    IN
    /\ ~(trim(message) = <<>> /\ ~hasFile)
    /\ ~IsNone(chatId[u]) /\ ~IsNone(keys[u]) /\ ~IsNone(recipient[u])
    /\ nextRand + (IF hasFile THEN 6 ELSE 3) <= MaxRand
    /\ IF ~impE.ok \/ ~impR.ok
       THEN \* an import threw: the catch reports it, nothing was drawn or sent
            /\ last' = result(FALSE, <<>>, <<>>)
            /\ UNCHANGED <<messages, sent, sentFile, storage, nextRand, encLog, reused,
                           wrapLog, wrapReused>>
       ELSE IF ~fileOk
       THEN \* the upload failed for a file too large to inline: thrown before the message part
            /\ last' = result(FALSE, f.calls, f.encs)
            /\ nextRand' = nextRand + 3
            /\ Encrypted(SeqToSet(f.encs), Repeated(f.encs))
            /\ Wrapped(SeqToSet(f.keks), Repeated(f.keks))
            /\ storage' = storage \cup f.objects
            /\ UNCHANGED <<messages, sent, sentFile>>
       ELSE LET calls == IF hasFile THEN f.calls \o m.calls ELSE m.calls
                encs == IF hasFile THEN f.encs \o m.encs ELSE m.encs
                keks == IF hasFile THEN f.keks \o m.keks ELSE m.keks
            IN  /\ last' = result(insertOk, calls, encs)
                /\ nextRand' = r + 3
                /\ Encrypted(SeqToSet(encs), Repeated(encs))
                /\ Wrapped(SeqToSet(keks), Repeated(keks))
                /\ storage' = IF hasFile THEN storage \cup f.objects ELSE storage
                /\ messages' = IF insertOk THEN Append(messages, m.messageData) ELSE messages
                /\ sent' = IF insertOk THEN Append(sent, text) ELSE sent
                /\ sentFile' = IF insertOk THEN Append(sentFile, selectedFile) ELSE sentFile
    /\ UNCHANGED <<localStorage, user_keys, keys, recipient, chatId, chats, benchRuns, backupFile,
                   chatMessages, user, loading, runs, generations, sealLog, chatView, creating>>

\* the user who sends; the other one receives (the handlers treat the two
\* users alike)
Senders == {"u1"}

\* a text message: whatever was typed; a file message: a file was selected
SendMessage ==
    \/ \E u \in Senders, message \in Texts \cup {<<>>}, ecdhThrowsMsg \in BOOLEAN,
          insertOk \in BOOLEAN :
            /\ Len(messages) < MaxMsgs
            /\ sendMessage(u, message, None, FALSE, ecdhThrowsMsg, <<"ok", "-", "-">>, insertOk)
    \/ \E u \in Senders, message \in {<<>>, <<"a">>}, selectedFile \in Files,
          ecdhThrowsFile \in BOOLEAN, ecdhThrowsMsg \in BOOLEAN, up \in UploadEnv,
          insertOk \in BOOLEAN :
            /\ Len(messages) < MaxMsgs
            /\ sendMessage(u, message, selectedFile, ecdhThrowsFile, ecdhThrowsMsg, up, insertOk)

-----------------------------------------------------------------------------
(* What the relay hands back: the stored row, or the row with one field     *)
(* changed.  A changed base64 text decodes to other bytes ("head": a bit    *)
(* within the first 12 bytes), to the same bytes ("slack": only bits of the *)
(* last character that belong to no byte changed, possible when the byte    *)
(* length is no multiple of 3), or not at all ("bad": a character outside   *)
(* the alphabet).                                                           *)

NoTamper == [field |-> "none", kind |-> "none"]

TextTampers(text) ==
    {"head", "bad"} \cup (IF ByteLen(text.b64) % 3 # 0 THEN {"slack"} ELSE {})

TamperText(text, kind) ==
    CASE kind = "slack" -> [text EXCEPT !.slack = TRUE]
      [] kind = "bad" -> [text EXCEPT !.bad = TRUE]
      [] OTHER -> [text EXCEPT !.b64 = FlipBit(text.b64, kind)]

WrapTags == {"ECDH", "RSA-OAEP", "OTHER"}

\* the changes that touch the payload, its hash or the tag
PayloadTampers(row) ==
    {[field |-> "ciphertext_base64", kind |-> k] : k \in {"head", "bad"}}
        \cup {[field |-> "hash_hex", kind |-> "head"]}
        \cup {[field |-> "wrap_alg", kind |-> k] : k \in WrapTags \ {row.wrap_alg}}

Tampers(row) ==
    PayloadTampers(row)
        \cup {[field |-> "ciphertext_base64", kind |-> k] : k \in TextTampers(row.ciphertext_base64)}
        \cup {[field |-> "iv_base64", kind |-> "head"]}
        \cup {[field |-> "wrapped_key_base64", kind |-> k] : k \in TextTampers(row.wrapped_key_base64) \ {"bad"}}
        \cup {[field |-> "salt_base64", kind |-> "head"]}
        \cup (IF ~IsNone(row.file_meta) /\ "storage_type" \in DOMAIN row.file_meta
              THEN {[field |-> "file_meta", kind |-> "head"]} ELSE {})

Tamper(row, t) ==
    CASE t.field = "none" -> row
      [] t.field = "ciphertext_base64" ->
            [row EXCEPT !.ciphertext_base64 = TamperText(row.ciphertext_base64, t.kind)]
      [] t.field = "iv_base64" ->
            [row EXCEPT !.iv_base64 = TamperText(row.iv_base64, t.kind)]
      [] t.field = "wrapped_key_base64" ->
            [row EXCEPT !.wrapped_key_base64 = TamperText(row.wrapped_key_base64, t.kind)]
      [] t.field = "salt_base64" ->
            [row EXCEPT !.salt_base64 = TamperText(row.salt_base64, t.kind)]
      [] t.field = "hash_hex" -> [row EXCEPT !.hash_hex = [sha |-> row.hash_hex.sha, changed |-> TRUE]]
      [] t.field = "wrap_alg" -> [row EXCEPT !.wrap_alg = t.kind]
      [] t.field = "file_meta" ->
            [row EXCEPT !.file_meta.encrypted_data_base64 = TamperText(@, t.kind)]

-----------------------------------------------------------------------------
(* Chat.decryptMessage *)

Threw == [ok |-> FALSE]

\* lines 278-307 and 360-387: the key unwrap, chosen by the tag.
\* senderData: the directory's row for a sender who is neither party of the
\* open chat (None: not found).
UnwrapByTag(u, target, tag, sender_id, wrappedKey, salt, senderData) ==
    IF tag = "ECDH"
    THEN LET jwk == IF sender_id = u \/ sender_id = Other(u)
                    THEN recipient[u].ecdh_public_key_jwk
                    ELSE senderData.ecdh_public_key_jwk
             imp == IF sender_id # u /\ sender_id # Other(u) /\ IsNone(senderData)
                    THEN Threw ELSE importECDHPublicJwk(jwk)
         IN  IF ~imp.ok
             THEN [ok |-> FALSE, calls |-> <<>>]
             ELSE LET k == unwrapAesKeyWithECDH(wrappedKey, keys[u].ecdhPrivate, imp.key, salt)
                  IN  IF k.ok
                      THEN [ok |-> TRUE, key |-> k.key,
                            calls |-> <<[target |-> target, path |-> "ECDH"]>>]
                      ELSE [ok |-> FALSE, calls |-> <<[target |-> target, path |-> "ECDH"]>>]
    ELSE LET k == unwrapAesKeyWithRSA(wrappedKey, keys[u].rsaPrivate)
         IN  IF k.ok
             THEN [ok |-> TRUE, key |-> k.key,
                   calls |-> <<[target |-> target, path |-> "RSA-OAEP"]>>]
             ELSE [ok |-> FALSE, calls |-> <<[target |-> target, path |-> "RSA-OAEP"]>>]

\* lines 313-425: the file part; any failure in it leaves the text alone.
\* downloaded: what the bucket returns for msg.file_url (None: an error).
OpenFile(u, msg, downloaded) ==
    LET fm == msg.file_meta
        noFile == [has |-> FALSE, calls |-> <<>>]
        inline == "storage_type" \in DOMAIN fm
        enc == IF inline THEN base64ToArrayBuffer(fm.encrypted_data_base64)
               ELSE IF IsNone(downloaded) THEN Threw
               ELSE [ok |-> TRUE, bytes |-> downloaded.body]
        fileIv == base64ToArrayBuffer(fm.iv)
        fileSalt == base64ToArrayBuffer(fm.salt)
        fileWrappedKey == base64ToArrayBuffer(fm.wrapped_key)
        k == UnwrapByTag(u, "file", fm.wrap_alg, msg.sender_id,
                         fileWrappedKey.bytes, fileSalt.bytes, None)
        dec == aesGcmDecrypt(k.key, fileIv.bytes, enc.bytes)
    IN  IF ~inline /\ "null" \in DOMAIN msg.file_url THEN noFile
        ELSE IF ~enc.ok \/ ~fileIv.ok \/ ~fileSalt.ok \/ ~fileWrappedKey.ok THEN noFile
        ELSE IF ~k.ok THEN [has |-> FALSE, calls |-> k.calls]
        ELSE IF ~dec.ok THEN [has |-> FALSE, calls |-> k.calls]
        ELSE [has |-> TRUE, calls |-> k.calls,
              file |-> [bytes |-> dec.bytes, name |-> fm.name, type |-> fm.type, size |-> fm.size]]

\* decryptMessage without the try block around the file part: a file that
\* does not open fails the whole message
decryptMessageFileThrows(u, msg, downloaded) ==
    LET iv == base64ToArrayBuffer(msg.iv_base64)
        salt == base64ToArrayBuffer(msg.salt_base64)
        ciphertext == base64ToArrayBuffer(msg.ciphertext_base64)
        wrappedKey == base64ToArrayBuffer(msg.wrapped_key_base64)
        k == UnwrapByTag(u, "msg", msg.wrap_alg, msg.sender_id, wrappedKey.bytes, salt.bytes, None)
        decrypted == aesGcmDecrypt(k.key, iv.bytes, ciphertext.bytes)
        f == OpenFile(u, msg, downloaded)
        thrown(calls) == [threw |-> TRUE, calls |-> calls, hasFile |-> FALSE]
    IN  IF IsNone(keys[u]) \/ IsNone(recipient[u]) THEN thrown(<<>>)
        ELSE IF ~iv.ok \/ ~salt.ok \/ ~ciphertext.ok \/ ~wrappedKey.ok THEN thrown(<<>>)
        ELSE IF ~k.ok THEN thrown(k.calls)
        ELSE IF ~decrypted.ok THEN thrown(k.calls)
        ELSE IF IsNone(msg.file_meta)
        THEN [threw |-> FALSE, calls |-> k.calls, hasFile |-> FALSE,
              text |-> arrayBufferToString(decrypted.bytes)]
        ELSE IF f.has
        THEN [threw |-> FALSE, calls |-> k.calls \o f.calls, hasFile |-> TRUE,
              text |-> arrayBufferToString(decrypted.bytes), file |-> f.file]
        ELSE thrown(k.calls \o f.calls)

decryptMessage(u, msg, downloaded) ==
    LET iv == base64ToArrayBuffer(msg.iv_base64)
        salt == base64ToArrayBuffer(msg.salt_base64)
        ciphertext == base64ToArrayBuffer(msg.ciphertext_base64)
        wrappedKey == base64ToArrayBuffer(msg.wrapped_key_base64)
        k == UnwrapByTag(u, "msg", msg.wrap_alg, msg.sender_id, wrappedKey.bytes, salt.bytes, None)
        decrypted == aesGcmDecrypt(k.key, iv.bytes, ciphertext.bytes)
        f == OpenFile(u, msg, downloaded)
        thrown(calls) == [threw |-> TRUE, calls |-> calls, hasFile |-> FALSE]
    IN  IF IsNone(keys[u]) \/ IsNone(recipient[u]) THEN thrown(<<>>)
        ELSE IF ~iv.ok \/ ~salt.ok \/ ~ciphertext.ok \/ ~wrappedKey.ok THEN thrown(<<>>)
        ELSE IF ~k.ok THEN thrown(k.calls)
        ELSE IF ~decrypted.ok THEN thrown(k.calls)
        ELSE IF IsNone(msg.file_meta)
        THEN [threw |-> FALSE, calls |-> k.calls, hasFile |-> FALSE,
              text |-> arrayBufferToString(decrypted.bytes)]
        ELSE IF f.has
        THEN [threw |-> FALSE, calls |-> k.calls \o f.calls, hasFile |-> TRUE,
              text |-> arrayBufferToString(decrypted.bytes), file |-> f.file]
        ELSE [threw |-> FALSE, calls |-> k.calls \o f.calls, hasFile |-> FALSE,
              text |-> arrayBufferToString(decrypted.bytes)]

\* the object the bucket holds under a name (None: the download fails)
Download(url) ==
    IF "null" \in DOMAIN url \/ ~(\E o \in storage : o.oname = url) THEN None
    ELSE CHOOSE o \in storage : o.oname = url

\* one message reaches decryptMessage, from loadMessages or from the
\* realtime subscription, as the relay delivers it
OpenMessage ==
    \E u \in Users, i \in 1..Len(messages) :
        \E t \in Tampers(messages[i]) \cup {NoTamper} :
            LET msg == Tamper(messages[i], t) IN
            /\ ~IsNone(chatId[u]) /\ msg.chat_id = chatId[u]
            /\ last' = [op |-> "open", user |-> u, row |-> i, tamper |-> t,
                        result |-> decryptMessage(u, msg, Download(msg.file_url))]
            /\ UNCHANGED <<localStorage, user_keys, keys, recipient, chatId, chats,
                           messages, sent, sentFile, storage, nextRand, encLog, reused, benchRuns, backupFile,
                           chatMessages, wrapLog, wrapReused, user, loading, runs, generations,
                           sealLog, chatView, creating>>

-----------------------------------------------------------------------------
(* Analytics *)

\* unwrapAesKeyForAnalytics: a key usable for encryption, or null
unwrapAesKeyForAnalytics(wrappedKey, wrapAlg, userPrivECDH, userPrivRSA, otherPartyPubECDH, salt) ==
    IF wrapAlg = "ECDH" /\ ~IsNone(otherPartyPubECDH)
    THEN LET kek == deriveKEK_ECDH(userPrivECDH, otherPartyPubECDH, salt, "wrap")
             ok == /\ ~Flipped(wrappedKey)
                   /\ "kek" \in DOMAIN wrappedKey
                   /\ wrappedKey.kek = kek
                   /\ wrappedKey.wiv = slice12(salt)
         IN  [key |-> IF ok THEN [k |-> wrappedKey.wkey] ELSE None, calls |-> <<"ECDH">>]
    ELSE IF wrapAlg = "RSA-OAEP"
    THEN LET k == unwrapAesKeyWithRSA(wrappedKey, userPrivRSA)
         IN  [key |-> IF k.ok THEN [k |-> k.key] ELSE None, calls |-> <<"RSA-OAEP">>]
    ELSE [key |-> None, calls |-> <<>>]

\* the body of the loop of loadMessageAnalytics (lines 290-425) for one
\* message.  otherPartyKeys: the directory's answer (None: no row); r: random
\* values drawn before.
AnalyzeMessage(u, msg, otherPartyKeys, r) ==
    LET iv == base64ToArrayBuffer(msg.iv_base64)
        salt == base64ToArrayBuffer(msg.salt_base64)
        ciphertext == base64ToArrayBuffer(msg.ciphertext_base64)
        wrappedKey == base64ToArrayBuffer(msg.wrapped_key_base64)
        hashVerified == sha256Hex(msg.ciphertext_base64) = msg.hash_hex
        imp == IF ~IsNone(otherPartyKeys) /\ msg.wrap_alg = "ECDH"
               THEN importECDHPublicJwk(otherPartyKeys.ecdh_public_key_jwk)
               ELSE Threw
        otherPartyEcdhPub == IF imp.ok THEN imp.key ELSE None
        viaEcdh == msg.wrap_alg = "ECDH" /\ ~IsNone(otherPartyEcdhPub)
        k == IF viaEcdh
             THEN unwrapAesKeyWithECDH(wrappedKey.bytes, keys[u].ecdhPrivate, otherPartyEcdhPub, salt.bytes)
             ELSE unwrapAesKeyWithRSA(wrappedKey.bytes, keys[u].rsaPrivate)
        firstCall == <<IF viaEcdh THEN "ECDH" ELSE "RSA-OAEP">>
        decryptedBuffer == aesGcmDecrypt(k.key, iv.bytes, ciphertext.bytes)
        decrypted == arrayBufferToString(decryptedBuffer.bytes)
        decryptionSuccess == k.ok /\ decryptedBuffer.ok
        forAnalytics == unwrapAesKeyForAnalytics(wrappedKey.bytes, msg.wrap_alg, keys[u].ecdhPrivate,
                                                 keys[u].rsaPrivate, otherPartyEcdhPub, salt.bytes)
        plaintext == stringToArrayBuffer(decrypted)
        \* bitDifferencePercent throws when the two ciphertexts differ in length
        sameLength == ByteLen(plaintext) + GcmTagLen = ByteLen(ciphertext.bytes)
        measured == decryptionSuccess /\ decrypted # <<>> /\ ~IsNone(forAnalytics.key)
        encs == IF ~measured THEN <<>>
                ELSE IF ~sameLength THEN <<[key |-> forAnalytics.key.k, iv |-> iv.bytes]>>
                ELSE <<[key |-> forAnalytics.key.k, iv |-> iv.bytes],
                       [key |-> genAesGcmKey(r + 1), iv |-> iv.bytes]>>
    IN  IF ~iv.ok \/ ~salt.ok \/ ~ciphertext.ok \/ ~wrappedKey.ok
        THEN \* a decode threw: the outer catch records the message as failed
             [hash_verified |-> FALSE, decryption_success |-> FALSE,
              calls |-> <<>>, encs |-> <<>>, drawn |-> 0]
        ELSE [hash_verified |-> hashVerified, decryption_success |-> decryptionSuccess,
              calls |-> IF decryptionSuccess THEN firstCall \o forAnalytics.calls ELSE firstCall,
              encs |-> encs,
              drawn |-> IF measured /\ sameLength THEN 1 ELSE 0]

\* what the directory may answer for the other party's keys
DirectoryAnswers(row) == IF IsNone(row) THEN {None} ELSE Served(row) \cup {None}

\* the loop of loadMessageAnalytics over the rows as delivered, from row j
\* on, r random values having been drawn before
RECURSIVE AnalyzeFrom(_, _, _, _, _)
AnalyzeFrom(u, rows, j, otherPartyKeys, r) ==
    IF j > Len(rows) THEN <<>>
    ELSE LET a == AnalyzeMessage(u, rows[j], otherPartyKeys, r)
         IN  <<a>> \o AnalyzeFrom(u, rows, j + 1, otherPartyKeys, r + a.drawn)

RECURSIVE AllEncs(_)
AllEncs(analytics) ==
    IF analytics = <<>> THEN <<>> ELSE Head(analytics).encs \o AllEncs(Tail(analytics))

RECURSIVE AllDrawn(_)
AllDrawn(analytics) ==
    IF analytics = <<>> THEN 0 ELSE Head(analytics).drawn + AllDrawn(Tail(analytics))

\* loadMessageAnalytics: every message of the user is analysed in turn.  The
\* relay delivers row i as it chooses and answers the directory lookups with
\* otherPartyKeys.
loadMessageAnalytics(u, i, t, otherPartyKeys) ==
    LET rows == [j \in 1..Len(messages) |-> IF j = i THEN Tamper(messages[j], t) ELSE messages[j]]
        analytics == AnalyzeFrom(u, rows, 1, otherPartyKeys, nextRand)
        encs == AllEncs(analytics)
    IN  /\ ~IsNone(keys[u])
        /\ \A j \in 1..Len(rows) : rows[j].sender_id = u \/ rows[j].recipient_id = u
        /\ nextRand + Len(messages) <= MaxRand
        /\ nextRand' = nextRand + AllDrawn(analytics)
        /\ Encrypted(SeqToSet(encs), Repeated(encs))
        /\ last' = [op |-> "analytics", user |-> u, row |-> i, tamper |-> t,
                    analytics |-> analytics]
        /\ UNCHANGED <<localStorage, user_keys, keys, recipient, chatId, chats,
                       messages, sent, sentFile, storage, benchRuns, backupFile, chatMessages,
                       wrapLog, wrapReused, user, loading, runs, generations, sealLog, chatView,
                       creating>>

LoadMessageAnalytics ==
    \E u \in Users, i \in 1..Len(messages) :
        \E t \in PayloadTampers(messages[i]) \cup {NoTamper} :
            \E otherPartyKeys \in DirectoryAnswers(
                    user_keys[IF messages[i].sender_id = u THEN messages[i].recipient_id
                              ELSE messages[i].sender_id]) :
                loadMessageAnalytics(u, i, t, otherPartyKeys)

\* Analytics.runBenchmark.  Its random values are numbered below zero, run by
\* run, so that they differ from every value drawn elsewhere.
TextIterations == 100
FileIterations == 20
BenchDraws == 2 * TextIterations + 2 * FileIterations + 5

\* the (key, nonce) pairs of a run's encryptions in order, each named by the
\* positions of its two values among the run's draws
BenchmarkEncs ==
    [i \in 1..TextIterations |-> [key |-> 2 * i - 1, iv |-> 2 * i]]
        \o [i \in 1..FileIterations |-> [key |-> 2 * TextIterations + 2 * i - 1,
                                         iv |-> 2 * TextIterations + 2 * i]]
        \o LET d == 2 * TextIterations + 2 * FileIterations
           IN  << \* diffusion test: ciphertext1, ciphertext2
                  [key |-> d + 1, iv |-> d + 2], [key |-> d + 1, iv |-> d + 2],
                  \* confusion test: ciphertext1, ciphertext3
                  [key |-> d + 3, iv |-> d + 4], [key |-> d + 5, iv |-> d + 4] >>

BenchmarkUsed == SeqToSet(BenchmarkEncs)
BenchmarkRepeated == Repeated(BenchmarkEncs)

BenchRand(run, k) == 0 - (run * BenchDraws + k)
BenchPair(run, e) == [key |-> genAesGcmKey(BenchRand(run, e.key)), iv |-> generateIV(BenchRand(run, e.iv))]

runBenchmark ==
    /\ benchRuns < MaxBench
    /\ benchRuns' = benchRuns + 1
    /\ Encrypted({BenchPair(benchRuns, e) : e \in BenchmarkUsed},
                 {BenchPair(benchRuns, e) : e \in BenchmarkRepeated})
    /\ last' = [op |-> "benchmark", run |-> benchRuns + 1,
                textEncrypt |-> TextIterations, fileEncrypt |-> FileIterations]
    /\ UNCHANGED <<localStorage, user_keys, keys, recipient, chatId, chats,
                   messages, sent, sentFile, storage, nextRand, backupFile, chatMessages,
                   wrapLog, wrapReused, user, loading, runs, generations, sealLog, chatView,
                   creating>>

RunBenchmark == runBenchmark

LoadOrGenerateKeys == \E u \in Users : loadOrGenerateKeys(u)

LoadRecipientAndChat == \E u \in Users : loadRecipientAndChat(u)

Next ==
    \/ LoadOrGenerateKeys
    \/ LoadRecipientAndChat
    \/ SendMessage
    \/ OpenMessage
    \/ LoadMessageAnalytics
    \/ RunBenchmark

Spec == Init /\ [][Next]_vars


\* the three handlers on the sending side alone
SendNext ==
    \/ LoadOrGenerateKeys
    \/ LoadRecipientAndChat
    \/ SendMessage

SendSpec == Init /\ [][SendNext]_vars

\* find-or-create of the chat, step by step, by both users
FindChat == \E u \in Users : findChat(u)

CreateChat == \E u \in Users : createChat(u)

FindNext ==
    \/ LoadOrGenerateKeys
    \/ FindChat
    \/ CreateChat

FindSpec == Init /\ [][FindNext]_vars

\* the handlers that write rows and the one that opens them
OpenNext ==
    \/ LoadOrGenerateKeys
    \/ LoadRecipientAndChat
    \/ SendMessage
    \/ OpenMessage

OpenSpec == Init /\ [][OpenNext]_vars

\* the handlers that write rows and the pass that verifies their hashes
HashNext ==
    \/ LoadOrGenerateKeys
    \/ LoadRecipientAndChat
    \/ SendMessage
    \/ LoadMessageAnalytics

HashSpec == Init /\ [][HashNext]_vars

-----------------------------------------------------------------------------
(* Key backup (lib/crypto/backup.ts) *)

\* the bundles whose text JSON.parse can be given
JsonValues ==
    {[ecdhPrivateJwk |-> exportPrivateJwk(generateECDHKeypair(a)),
      rsaPrivateJwk |-> exportPrivateJwk(generateRSAKeypair(b))] :
        a \in 1..(MaxRand + 1), b \in 1..(MaxRand + 1)}

\* JSON.parse: the value whose text this is; throws on any other text
JSONparse(text) ==
    IF Len(text) = 1 /\ \E v \in JsonValues : ToString(v) = text[1]
    THEN [ok |-> TRUE, value |-> CHOOSE v \in JsonValues : ToString(v) = text[1]]
    ELSE [ok |-> FALSE]

\* block length in bytes of HMAC-SHA-256, the function PBKDF2 is run with
HmacBlockLen == 64

RECURSIVE StripNul(_)
StripNul(k) ==
    IF k # <<>> /\ k[Len(k)] = "NUL" THEN StripNul(SubSeq(k, 1, Len(k) - 1)) ELSE k

\* the HMAC key of a password: a password longer than one block is hashed
\* first, a shorter one is padded with zero bytes to the block length, so
\* passwords that differ in trailing zero bytes give the same key
HmacKey(k) ==
    IF Utf8Bytes(k) > HmacBlockLen THEN <<"sha256">> \o k ELSE StripNul(k)

\* iteration count of PBKDF2
Pbkdf2Iterations == 200000

\* PBKDF2 over new TextEncoder().encode(passphrase)
deriveKeyFromPassphrase(passphrase, salt) ==
    [pbkdf2 |-> HmacKey(stringToArrayBuffer(passphrase).utf8), pbkdf2Salt |-> salt,
     iterations |-> Pbkdf2Iterations]

\* a seal that takes the same nonce every time
exportKeysSealedFixedIv(ecdhPrivateJwk, rsaPrivateJwk, passphrase, r) ==
    LET backupData == [ecdhPrivateJwk |-> ecdhPrivateJwk, rsaPrivateJwk |-> rsaPrivateJwk]
        salt == generateSalt(r + 1)
        iv == generateIV(0)
        key == deriveKeyFromPassphrase(passphrase, salt)
        plaintext == stringToArrayBuffer(JSONstringify(backupData))
        ciphertext == aesGcmEncrypt(key, iv, plaintext)
    IN  [syntax |-> TRUE,
         ciphertext |-> arrayBufferToBase64(ciphertext),
         iv |-> arrayBufferToBase64(iv),
         salt |-> arrayBufferToBase64(salt)]

\* r: random values drawn before
exportKeysSealed(ecdhPrivateJwk, rsaPrivateJwk, passphrase, r) ==
    LET backupData == [ecdhPrivateJwk |-> ecdhPrivateJwk, rsaPrivateJwk |-> rsaPrivateJwk]
        salt == generateSalt(r + 1)
        iv == generateIV(r + 2)
        key == deriveKeyFromPassphrase(passphrase, salt)
        plaintext == stringToArrayBuffer(JSONstringify(backupData))
        ciphertext == aesGcmEncrypt(key, iv, plaintext)
    IN  [syntax |-> TRUE,
         ciphertext |-> arrayBufferToBase64(ciphertext),
         iv |-> arrayBufferToBase64(iv),
         salt |-> arrayBufferToBase64(salt)]

InvalidBackup == "Invalid passphrase or corrupted backup file"

\* JSON.parse of the file and the three atob calls are outside the try block
importKeysSealed(blob, passphrase) ==
    LET salt == base64ToArrayBuffer(blob.salt)
        iv == base64ToArrayBuffer(blob.iv)
        ciphertext == base64ToArrayBuffer(blob.ciphertext)
        key == deriveKeyFromPassphrase(passphrase, salt.bytes)
        plaintext == aesGcmDecrypt(key, iv.bytes, ciphertext.bytes)
        backupData == JSONparse(arrayBufferToString(plaintext.bytes))
    IN  IF ~blob.syntax THEN [ok |-> FALSE, error |-> "SyntaxError"]
        ELSE IF ~salt.ok \/ ~iv.ok \/ ~ciphertext.ok
        THEN [ok |-> FALSE, error |-> "InvalidCharacterError"]
        ELSE IF ~plaintext.ok THEN [ok |-> FALSE, error |-> InvalidBackup]
        ELSE IF ~backupData.ok THEN [ok |-> FALSE, error |-> InvalidBackup]
        ELSE [ok |-> TRUE, value |-> backupData.value]

Passphrases == {<<"a">>, <<"b">>, <<"a", "NUL">>, <<"LS">>, <<"FFFD">>}

\* what can happen to the backup file between export and import: a bit of one
\* of its three fields changed, a character of a field's base64 text replaced
\* by one outside the alphabet or by one that differs in the unused bits, the
\* JSON text of the file broken
BackupTampers(blob) ==
    {[field |-> f, kind |-> k] : f \in {"ciphertext", "iv", "salt"}, k \in {"head", "bad"}}
        \cup {[field |-> "salt", kind |-> k] : k \in TextTampers(blob.salt) \ {"head", "bad"}}
        \cup {[field |-> "file", kind |-> "syntax"]}

TamperBackup(blob, t) ==
    CASE t.field = "none" -> blob
      [] t.field = "file" -> [blob EXCEPT !.syntax = FALSE]
      [] t.field = "ciphertext" -> [blob EXCEPT !.ciphertext = TamperText(@, t.kind)]
      [] t.field = "iv" -> [blob EXCEPT !.iv = TamperText(@, t.kind)]
      [] t.field = "salt" -> [blob EXCEPT !.salt = TamperText(@, t.kind)]

\* a user exports the keys of the browser's store under a passphrase
ExportKeysSealed ==
    \E u \in Users, passphrase \in Passphrases :
        /\ ~IsNone(localStorage[u])
        /\ nextRand + 2 <= MaxRand
        /\ backupFile' =
              [blob |-> exportKeysSealed(localStorage[u].ecdhPrivateJwk,
                                         localStorage[u].rsaPrivateJwk, passphrase, nextRand),
               ecdhPrivateJwk |-> localStorage[u].ecdhPrivateJwk,
               rsaPrivateJwk |-> localStorage[u].rsaPrivateJwk,
               passphrase |-> passphrase]
        /\ nextRand' = nextRand + 2
        /\ sealLog' = Append(sealLog, [salt |-> base64ToArrayBuffer(backupFile'.blob.salt).bytes,
                                       iv |-> base64ToArrayBuffer(backupFile'.blob.iv).bytes])
        /\ last' = [op |-> "export", user |-> u, passphrase |-> passphrase]
        /\ UNCHANGED <<localStorage, user_keys, keys, recipient, chatId, chats, messages, sent,
                       sentFile, storage, encLog, reused, benchRuns, chatMessages, wrapLog,
                       wrapReused, user, loading, runs, generations, chatView, creating>>

\* the file, as it is or changed, is imported under a passphrase
ImportKeysSealed ==
    \E passphrase \in Passphrases :
        /\ ~IsNone(backupFile)
        /\ \E t \in BackupTampers(backupFile.blob) \cup {NoTamper} :
              last' = [op |-> "import", passphrase |-> passphrase, tamper |-> t,
                       result |-> importKeysSealed(TamperBackup(backupFile.blob, t), passphrase)]
        /\ UNCHANGED <<localStorage, user_keys, keys, recipient, chatId, chats, messages, sent,
                       sentFile, storage, nextRand, encLog, reused, benchRuns, backupFile,
                       chatMessages, wrapLog, wrapReused, user, loading, runs, generations,
                       sealLog, chatView, creating>>

BackupNext ==
    \/ LoadOrGenerateKeys
    \/ ExportKeysSealed
    \/ ImportKeysSealed

BackupSpec == Init /\ [][BackupNext]_vars

-----------------------------------------------------------------------------
(* The message list of Chat: loadMessages and the notification channel *)

MaxList == 2        \* rows of one chat the list handlers are run over

\* the text shown for an envelope that could not be opened
DecryptionFailed == <<"[Decryption failed]">>

\* the entry of the list for row i, delivered as msg: the body of the map
\* callback of loadMessages and of the channel callback
ShownMessage(u, i, msg) ==
    LET decrypted == decryptMessage(u, msg, Download(msg.file_url))
    IN  IF decrypted.threw
        THEN [id |-> i, decryptedContent |-> DecryptionFailed]
        ELSE [id |-> i, decryptedContent |-> decrypted.text,
              decryptedFile |-> IF decrypted.hasFile THEN decrypted.file ELSE None]

\* what the relay may do to a row it hands to a list handler
ListTampers == {NoTamper, [field |-> "ciphertext_base64", kind |-> "head"]}

\* loadMessages without the try block around each open: one failing open
\* rejects the whole Promise.all and the list is left as it was
loadMessagesAllOrNothing(u, error, ts) ==
    LET data == [i \in 1..Len(messages) |-> ShownMessage(u, i, Tamper(messages[i], ts[i]))]
        ofChat(m) == messages[m.id].chat_id = chatId[u]
        rejected == \E i \in 1..Len(data) : data[i].decryptedContent = DecryptionFailed
    IN  /\ ~IsNone(chatId[u])
        /\ chatMessages' = IF error \/ rejected THEN chatMessages
                           ELSE [chatMessages EXCEPT ![u] = SelectSeq(data, ofChat)]
        /\ last' = [op |-> "load", user |-> u, error |-> error, tampers |-> ts]
        /\ UNCHANGED <<localStorage, user_keys, keys, recipient, chatId, chats, messages, sent,
                       sentFile, storage, nextRand, encLog, reused, benchRuns, backupFile,
                       wrapLog, wrapReused, user, loading, runs, generations, sealLog, chatView,
                       creating>>

\* loadMessages: the rows of the chat, each delivered as the relay chooses
\* (ts), are opened one by one and the list is replaced; error: the query fails
loadMessages(u, error, ts) ==
    LET data == [i \in 1..Len(messages) |-> ShownMessage(u, i, Tamper(messages[i], ts[i]))]
        ofChat(m) == messages[m.id].chat_id = chatId[u]
    IN  /\ ~IsNone(chatId[u])
        /\ chatMessages' = IF error THEN chatMessages
                           ELSE [chatMessages EXCEPT ![u] = SelectSeq(data, ofChat)]
        /\ last' = [op |-> "load", user |-> u, error |-> error, tampers |-> ts]
        /\ UNCHANGED <<localStorage, user_keys, keys, recipient, chatId, chats, messages, sent,
                       sentFile, storage, nextRand, encLog, reused, benchRuns, backupFile,
                       wrapLog, wrapReused, user, loading, runs, generations, sealLog, chatView,
                       creating>>

\* subscribeToMessages: the callback for an inserted row of the chat, which
\* the channel delivers once, as the relay chooses (t); the entry is appended
subscribeToMessages(u, i, t) ==
    /\ ~IsNone(chatId[u]) /\ messages[i].chat_id = chatId[u]
    /\ \A k \in 1..Len(chatMessages[u]) : chatMessages[u][k].id # i
    /\ chatMessages' = [chatMessages EXCEPT
                            ![u] = Append(@, ShownMessage(u, i, Tamper(messages[i], t)))]
    /\ last' = [op |-> "notify", user |-> u, row |-> i, tamper |-> t]
    /\ UNCHANGED <<localStorage, user_keys, keys, recipient, chatId, chats, messages, sent,
                   sentFile, storage, nextRand, encLog, reused, benchRuns, backupFile, wrapLog,
                   wrapReused, user, loading, runs, generations, sealLog, chatView, creating>>

\* the user whose list is followed: the one who receives
Receivers == Users \ Senders

LoadMessages ==
    \E u \in Receivers, error \in BOOLEAN :
        \E ts \in [1..Len(messages) -> ListTampers] : loadMessages(u, error, ts)

SubscribeToMessages ==
    \E u \in Receivers, t \in ListTampers :
        /\ messages # <<>>
        /\ subscribeToMessages(u, Len(messages), t)

\* text messages, up to MaxList of them
SendText ==
    \E u \in Senders, ecdhThrowsMsg \in BOOLEAN, insertOk \in BOOLEAN :
        /\ Len(messages) < MaxList
        /\ sendMessage(u, <<"a">>, None, FALSE, ecdhThrowsMsg, <<"ok", "-", "-">>, insertOk)

ListNext ==
    \/ LoadOrGenerateKeys
    \/ LoadRecipientAndChat
    \/ SendText
    \/ LoadMessages
    \/ SubscribeToMessages
    \/ LoadMessageAnalytics

ListSpec == Init /\ [][ListNext]_vars

-----------------------------------------------------------------------------
(* The effect of Chat on chatId, step by step: loadMessages sends its query *)
(* and subscribeToMessages asks for the channel; the relay answers the      *)
(* query and joins the channel in either order, rows are inserted meanwhile *)

ViewUnchanged ==
    UNCHANGED <<localStorage, user_keys, keys, recipient, chatId, chats, messages, sent,
                sentFile, storage, nextRand, encLog, reused, benchRuns, backupFile, wrapLog,
                wrapReused, user, loading, runs, generations, sealLog, creating>>

\* the effect runs once chatId is set: loadMessages() up to its await and
\* subscribeToMessages() up to subscribe()
chatEffect(u) ==
    /\ ~IsNone(chatId[u])
    /\ chatView[u].load = "idle"
    /\ chatView' = [chatView EXCEPT ![u].load = "select"]
    /\ last' = [op |-> "effect", user |-> u]
    /\ UNCHANGED chatMessages
    /\ ViewUnchanged

\* the relay runs the query of loadMessages: the rows stored at this moment
selectMessages(u, error) ==
    /\ chatView[u].load = "select"
    /\ chatView' = [chatView EXCEPT ![u].load = IF error THEN "failed" ELSE "decrypt",
                                     ![u].snap = IF error THEN 0 ELSE Len(messages)]
    /\ last' = [op |-> "select", user |-> u, error |-> error]
    /\ UNCHANGED chatMessages
    /\ ViewUnchanged

\* Promise.all has resolved: setMessages(decryptedMessages) replaces the list
setMessages(u) ==
    LET data == [i \in 1..chatView[u].snap |-> ShownMessage(u, i, messages[i])]
        ofChat(m) == messages[m.id].chat_id = chatId[u]
    IN  /\ chatView[u].load = "decrypt"
        /\ chatMessages' = [chatMessages EXCEPT ![u] = SelectSeq(data, ofChat)]
        /\ chatView' = [chatView EXCEPT ![u].load = "done"]
        /\ last' = [op |-> "setMessages", user |-> u]
        /\ ViewUnchanged

\* the relay joins the channel: rows inserted from now on are delivered
channelJoined(u) ==
    /\ chatView[u].load # "idle"
    /\ ~chatView[u].joined
    /\ chatView' = [chatView EXCEPT ![u].joined = TRUE, ![u].next = Len(messages) + 1]
    /\ last' = [op |-> "joined", user |-> u]
    /\ UNCHANGED chatMessages
    /\ ViewUnchanged

\* the channel callback for the next inserted row: rows of other chats are
\* filtered out, a row of this chat is opened and appended to the list
onInsert(u) ==
    LET i == chatView[u].next IN
    /\ chatView[u].joined
    /\ i <= Len(messages)
    /\ chatMessages' = IF messages[i].chat_id = chatId[u]
                       THEN [chatMessages EXCEPT
                                ![u] = Append(@, ShownMessage(u, i, messages[i]))]
                       ELSE chatMessages
    /\ chatView' = [chatView EXCEPT ![u].next = i + 1]
    /\ last' = [op |-> "onInsert", user |-> u, row |-> i]
    /\ ViewUnchanged

ChatEffect == \E u \in Receivers : chatEffect(u)

SelectMessages == \E u \in Receivers, error \in BOOLEAN : selectMessages(u, error)

SetMessages == \E u \in Receivers : setMessages(u)

ChannelJoined == \E u \in Receivers : channelJoined(u)

OnInsert == \E u \in Receivers : onInsert(u)

ViewNext ==
    \/ LoadOrGenerateKeys
    \/ LoadRecipientAndChat
    \/ SendText
    \/ ChatEffect
    \/ SelectMessages
    \/ SetMessages
    \/ ChannelJoined
    \/ OnInsert

ViewSpec == Init /\ [][ViewNext]_vars

-----------------------------------------------------------------------------
(* The agreement-path unwrap on its own (lib/crypto/wrap.ts) *)

\* key pairs, salts and the AES key the unwrap is tried with
UnwrapKids == 1..3
UnwrapSalts == {generateSalt(4), generateSalt(5)}
UnwrapAesKey == genAesGcmKey(6)

\* what the salt given to the unwrap is, next to the salt of the wrap: the
\* same, one with a bit changed in or after its first 12 bytes, the same
\* followed by a zero byte, another salt
SaltChanges == {"none", "head", "tail", "pad", "other"}

ChangedSalt(salt, change) ==
    CASE change = "none" -> salt
      [] change = "pad" -> ZeroPad(salt)
      [] change = "other" -> CHOOSE x \in UnwrapSalts : x # salt
      [] OTHER -> FlipBit(salt, change)

\* a key wrapped by a with b's public key under a salt is unwrapped by c with
\* d's public key, the wrapped key and the salt as given or changed
UnwrapAesKeyWithECDH ==
    \E a \in UnwrapKids, b \in UnwrapKids, c \in UnwrapKids, d \in UnwrapKids,
       salt \in UnwrapSalts, saltChange \in SaltChanges, keyChanged \in BOOLEAN :
        LET wrapped == wrapAesKeyWithECDH(UnwrapAesKey, privateKey(generateECDHKeypair(a)),
                                          publicKey(generateECDHKeypair(b)), salt)
            given == IF keyChanged THEN FlipBit(wrapped, "head") ELSE wrapped
        IN  /\ last' = [op |-> "unwrap", wrapPriv |-> a, wrapPub |-> b,
                        unwrapPriv |-> c, unwrapPub |-> d,
                        saltChange |-> saltChange, keyChanged |-> keyChanged,
                        result |-> unwrapAesKeyWithECDH(
                                      given, privateKey(generateECDHKeypair(c)),
                                      publicKey(generateECDHKeypair(d)),
                                      ChangedSalt(salt, saltChange))]
            /\ UNCHANGED <<localStorage, user_keys, keys, recipient, chatId, chats, messages,
                           sent, sentFile, storage, nextRand, encLog, reused, benchRuns,
                           backupFile, chatMessages, wrapLog, wrapReused, user, loading, runs,
                           generations, sealLog, chatView, creating>>

UnwrapNext == UnwrapAesKeyWithECDH

UnwrapSpec == Init /\ [][UnwrapNext]_vars

-----------------------------------------------------------------------------
(* The identity record: Settings.saveSettings, signOut, another browser *)

DisplayNames == {<<>>, <<"a">>}

\* saveSettings: the display name is written to the user's row (an update of
\* no row is no error), then refreshKeys runs loadOrGenerateKeys
saveSettings(u, displayName, updateOk, upsertOk) ==
    LET name == IF displayName = <<>> THEN NullName ELSE [text |-> displayName]
        updated == IF IsNone(user_keys[u]) THEN user_keys[u]
                   ELSE [user_keys[u] EXCEPT !.display_name = name]
        parsed == localStorage[u]
        imported == IF IsNone(parsed) THEN <<>>
                    ELSE <<importECDHPrivateJwk(parsed.ecdhPrivateJwk),
                           importRSAPrivateJwk(parsed.rsaPrivateJwk),
                           importECDHPublicJwk(parsed.ecdhPublicJwk),
                           importRSAPublicJwk(parsed.rsaPublicJwk)>>
        ecdhKeyPair == generateECDHKeypair(nextRand + 1)
        rsaKeyPair == generateRSAKeypair(nextRand + 2)
        ecdhPublicJwk == exportPublicJwk(ecdhKeyPair)
        rsaPublicJwk == exportPublicJwk(rsaKeyPair)
        fingerprint == sha256Hex(FingerprintData(ecdhPublicJwk, rsaPublicJwk))
        result == [op |-> "saveSettings", user |-> u, displayName |-> displayName,
                   updateOk |-> updateOk, before |-> user_keys[u]]
    IN  /\ IsNone(localStorage[u]) => nextRand + 2 <= MaxRand
        /\ last' = result
        /\ IF ~updateOk
           THEN \* the update failed: the catch reports it, no refresh
                UNCHANGED <<localStorage, user_keys, keys, nextRand, generations>>
           ELSE IF ~IsNone(parsed)
           THEN \* refreshKeys finds the stored keys
                /\ user_keys' = [user_keys EXCEPT ![u] = updated]
                /\ keys' = [keys EXCEPT ![u] =
                        IF \A k \in 1..4 : imported[k].ok
                        THEN [ecdhPrivate |-> imported[1].key, ecdhPublic |-> imported[3].key,
                              rsaPrivate |-> imported[2].key, rsaPublic |-> imported[4].key]
                        ELSE keys[u]]
                /\ UNCHANGED <<localStorage, nextRand, generations>>
           ELSE \* refreshKeys generates and publishes a new pair of keys
                /\ nextRand' = nextRand + 2
                /\ generations' = [generations EXCEPT ![u] = @ + 1]
                /\ localStorage' = [localStorage EXCEPT ![u] =
                        [ecdhPrivateJwk |-> exportPrivateJwk(ecdhKeyPair),
                         rsaPrivateJwk |-> exportPrivateJwk(rsaKeyPair),
                         ecdhPublicJwk |-> ecdhPublicJwk, rsaPublicJwk |-> rsaPublicJwk]]
                /\ user_keys' = [user_keys EXCEPT ![u] =
                        IF upsertOk
                        THEN Upserted(updated, u, ecdhPublicJwk, rsaPublicJwk, fingerprint)
                        ELSE updated]
                /\ keys' = [keys EXCEPT ![u] =
                        IF upsertOk
                        THEN [ecdhPrivate |-> privateKey(ecdhKeyPair),
                              ecdhPublic |-> publicKey(ecdhKeyPair),
                              rsaPrivate |-> privateKey(rsaKeyPair),
                              rsaPublic |-> publicKey(rsaKeyPair)]
                        ELSE keys[u]]
        /\ UNCHANGED <<recipient, chatId, chats, messages, sent, sentFile, storage, encLog,
                       reused, benchRuns, backupFile, chatMessages, wrapLog, wrapReused, user,
                       loading, runs, sealLog, chatView, creating>>

SaveSettings ==
    \E u \in Users, displayName \in DisplayNames, updateOk \in BOOLEAN, upsertOk \in BOOLEAN :
        saveSettings(u, displayName, updateOk, upsertOk)

\* signOut: the provider forgets the user and the keys; localStorage stays
signOut(u) ==
    /\ ~IsNone(keys[u]) \/ ~IsNone(user[u])
    /\ user' = [user EXCEPT ![u] = None]
    /\ keys' = [keys EXCEPT ![u] = None]
    /\ last' = [op |-> "signOut", user |-> u]
    /\ UNCHANGED <<localStorage, user_keys, recipient, chatId, chats, messages, sent, sentFile,
                   storage, nextRand, encLog, reused, benchRuns, backupFile, chatMessages,
                   wrapLog, wrapReused, loading, runs, generations, sealLog, chatView, creating>>

SignOut == \E u \in Users : signOut(u)

\* the user opens the application in a browser whose localStorage holds
\* nothing under their key: the provider starts from its initial state
NewBrowser ==
    \E u \in Users :
        /\ ~IsNone(localStorage[u])
        /\ localStorage' = [localStorage EXCEPT ![u] = None]
        /\ keys' = [keys EXCEPT ![u] = None]
        /\ recipient' = [recipient EXCEPT ![u] = None]
        /\ chatId' = [chatId EXCEPT ![u] = None]
        /\ chatMessages' = [chatMessages EXCEPT ![u] = <<>>]
        /\ user' = [user EXCEPT ![u] = None]
        /\ loading' = [loading EXCEPT ![u] = TRUE]
        /\ runs' = [runs EXCEPT ![u] = {}]
        /\ last' = [op |-> "newBrowser", user |-> u]
        /\ UNCHANGED <<user_keys, chats, messages, sent, sentFile, storage, nextRand, encLog,
                       reused, benchRuns, backupFile, wrapLog, wrapReused, generations, sealLog,
                       chatView, creating>>

IdentityNext ==
    \/ LoadOrGenerateKeys
    \/ SaveSettings
    \/ SignOut
    \/ NewBrowser

IdentitySpec == Init /\ [][IdentityNext]_vars

-----------------------------------------------------------------------------
(* CryptoKeysProvider step by step: loadOrGenerateKeys is an async function, *)
(* so a call runs up to its first await and the rest runs later, between     *)
(* other callbacks of the same page.                                         *)

MaxInFlight == 2    \* calls of loadOrGenerateKeys one client has waiting at an await

\* the clients whose provider is followed step by step: one page of one user
Tabs == {"u1"}

\* the session an auth callback is handed: none, or the user's
Sessions(u) == {None, [id |-> u]}

FreeId(u) == CHOOSE i \in 1..MaxInFlight : \A r \in runs[u] : r.id # i

\* loadOrGenerateKeys up to its first await: the read of localStorage decides
\* the branch; the generating branch calls generateECDHKeypair
Begin(u, origin) ==
    IF ~IsNone(localStorage[u])
    THEN [id |-> FreeId(u), origin |-> origin, pc |-> "import", parsed |-> localStorage[u]]
    ELSE [id |-> FreeId(u), origin |-> origin, pc |-> "generate",
          ecdhKeyPair |-> generateECDHKeypair(nextRand + 1),
          rsaKeyPair |-> generateRSAKeypair(nextRand + 2)]

\* a callback calls loadOrGenerateKeys(u) and does not wait for it
Called(u, origin) ==
    /\ Cardinality(runs[u]) < MaxInFlight
    /\ IsNone(localStorage[u]) => nextRand + 2 <= MaxRand
    /\ runs' = [runs EXCEPT ![u] = @ \cup {Begin(u, origin)}]
    /\ IF IsNone(localStorage[u])
       THEN /\ nextRand' = nextRand + 2
            /\ generations' = [generations EXCEPT ![u] = @ + 1]
       ELSE UNCHANGED <<nextRand, generations>>

\* what the call's finally() does: only the getSession callback attaches one
Settled(u, r) ==
    loading' = [loading EXCEPT ![u] = IF r.origin = "getSession" THEN FALSE ELSE @]

\* the callback of supabase.auth.getSession(), once per mounted provider
getSession(u, session) ==
    /\ loading[u]
    /\ \A r \in runs[u] : r.origin # "getSession"
    /\ user' = [user EXCEPT ![u] = session]
    /\ IF ~IsNone(session)
       THEN Called(u, "getSession") /\ UNCHANGED loading
       ELSE /\ loading' = [loading EXCEPT ![u] = FALSE]
            /\ UNCHANGED <<runs, nextRand, generations>>
    /\ last' = [op |-> "getSession", user |-> u]
    /\ UNCHANGED <<localStorage, user_keys, keys, recipient, chatId, chats, messages, sent,
                   sentFile, storage, encLog, reused, benchRuns, backupFile, chatMessages,
                   wrapLog, wrapReused, sealLog, chatView, creating>>

GetSession == \E u \in Tabs : \E session \in Sessions(u) : getSession(u, session)

\* the listener of supabase.auth.onAuthStateChange
onAuthStateChange(u, session) ==
    /\ user' = [user EXCEPT ![u] = session]
    /\ IF ~IsNone(session)
       THEN Called(u, "onAuthStateChange") /\ UNCHANGED keys
       ELSE /\ keys' = [keys EXCEPT ![u] = None]
            /\ UNCHANGED <<runs, nextRand, generations>>
    /\ last' = [op |-> "onAuthStateChange", user |-> u]
    /\ UNCHANGED <<localStorage, user_keys, recipient, chatId, chats, messages, sent, sentFile,
                   storage, encLog, reused, benchRuns, backupFile, chatMessages, wrapLog,
                   wrapReused, loading, sealLog, chatView, creating>>

OnAuthStateChange == \E u \in Tabs : \E session \in Sessions(u) : onAuthStateChange(u, session)

\* refreshKeys: a call of loadOrGenerateKeys if there is a user
refreshKeys(u) ==
    /\ ~IsNone(user[u])
    /\ Called(u, "refreshKeys")
    /\ last' = [op |-> "refreshKeys", user |-> u]
    /\ UNCHANGED <<localStorage, user_keys, keys, recipient, chatId, chats, messages, sent,
                   sentFile, storage, encLog, reused, benchRuns, backupFile, chatMessages,
                   wrapLog, wrapReused, user, loading, sealLog, chatView, creating>>

RefreshKeys == \E u \in Tabs : refreshKeys(u)

\* the loading branch after its imports: setKeys with the stored keys
FinishLoad(u, r) ==
    LET parsed == r.parsed
        ecdhPrivate == importECDHPrivateJwk(parsed.ecdhPrivateJwk)
        rsaPrivate == importRSAPrivateJwk(parsed.rsaPrivateJwk)
        ecdhPublic == importECDHPublicJwk(parsed.ecdhPublicJwk)
        rsaPublic == importRSAPublicJwk(parsed.rsaPublicJwk)
    IN  /\ r.pc = "import"
        /\ keys' = [keys EXCEPT ![u] =
                IF ecdhPrivate.ok /\ rsaPrivate.ok /\ ecdhPublic.ok /\ rsaPublic.ok
                THEN [ecdhPrivate |-> ecdhPrivate.key, ecdhPublic |-> ecdhPublic.key,
                      rsaPrivate |-> rsaPrivate.key, rsaPublic |-> rsaPublic.key]
                ELSE keys[u]]
        /\ runs' = [runs EXCEPT ![u] = @ \ {r}]
        /\ Settled(u, r)
        /\ last' = [op |-> "finishLoad", user |-> u]
        /\ UNCHANGED <<localStorage, user_keys, recipient, chatId, chats, messages, sent,
                       sentFile, storage, nextRand, encLog, reused, benchRuns, backupFile,
                       chatMessages, wrapLog, wrapReused, user, generations, sealLog, chatView,
                       creating>>

\* the generating branch after generation, export and hash: the bundle goes
\* to localStorage and the upsert request leaves
StoreGenerated(u, r) ==
    /\ r.pc = "generate"
    /\ localStorage' = [localStorage EXCEPT ![u] =
            [ecdhPrivateJwk |-> exportPrivateJwk(r.ecdhKeyPair),
             rsaPrivateJwk |-> exportPrivateJwk(r.rsaKeyPair),
             ecdhPublicJwk |-> exportPublicJwk(r.ecdhKeyPair),
             rsaPublicJwk |-> exportPublicJwk(r.rsaKeyPair)]]
    /\ runs' = [runs EXCEPT ![u] = (@ \ {r}) \cup
            {[id |-> r.id, origin |-> r.origin, pc |-> "upsert",
              ecdhKeyPair |-> r.ecdhKeyPair, rsaKeyPair |-> r.rsaKeyPair]}]
    /\ last' = [op |-> "storeGenerated", user |-> u]
    /\ UNCHANGED <<user_keys, keys, recipient, chatId, chats, messages, sent, sentFile,
                   storage, nextRand, encLog, reused, benchRuns, backupFile, chatMessages,
                   wrapLog, wrapReused, user, loading, generations, sealLog, chatView, creating>>

\* the relay handles the upsert request: it writes the row, or answers with an error
UpsertArrives(u, r, upsertOk) ==
    LET ecdhPublicJwk == exportPublicJwk(r.ecdhKeyPair)
        rsaPublicJwk == exportPublicJwk(r.rsaKeyPair)
        fingerprint == sha256Hex(FingerprintData(ecdhPublicJwk, rsaPublicJwk))
    IN  /\ r.pc = "upsert"
        /\ user_keys' = [user_keys EXCEPT ![u] =
                IF upsertOk
                THEN Upserted(user_keys[u], u, ecdhPublicJwk, rsaPublicJwk, fingerprint)
                ELSE @]
        /\ runs' = [runs EXCEPT ![u] = (@ \ {r}) \cup
                {[id |-> r.id, origin |-> r.origin, pc |-> "response", error |-> ~upsertOk,
                  ecdhKeyPair |-> r.ecdhKeyPair, rsaKeyPair |-> r.rsaKeyPair]}]
        /\ last' = [op |-> "upsertArrives", user |-> u]
        /\ UNCHANGED <<localStorage, keys, recipient, chatId, chats, messages, sent, sentFile,
                       storage, nextRand, encLog, reused, benchRuns, backupFile, chatMessages,
                       wrapLog, wrapReused, user, loading, generations, sealLog, chatView,
                       creating>>

\* the generating branch after the upsert's answer: throw on an error, else setKeys
FinishGenerate(u, r) ==
    /\ r.pc = "response"
    /\ keys' = [keys EXCEPT ![u] =
            IF r.error THEN @
            ELSE [ecdhPrivate |-> privateKey(r.ecdhKeyPair),
                  ecdhPublic |-> publicKey(r.ecdhKeyPair),
                  rsaPrivate |-> privateKey(r.rsaKeyPair),
                  rsaPublic |-> publicKey(r.rsaKeyPair)]]
    /\ runs' = [runs EXCEPT ![u] = @ \ {r}]
    /\ Settled(u, r)
    /\ last' = [op |-> "finishGenerate", user |-> u]
    /\ UNCHANGED <<localStorage, user_keys, recipient, chatId, chats, messages, sent, sentFile,
                   storage, nextRand, encLog, reused, benchRuns, backupFile, chatMessages,
                   wrapLog, wrapReused, user, generations, sealLog, chatView, creating>>

ProviderNext ==
    \/ GetSession
    \/ OnAuthStateChange
    \/ RefreshKeys
    \/ \E u \in Tabs : \E r \in runs[u] : FinishLoad(u, r)
    \/ \E u \in Tabs : \E r \in runs[u] : StoreGenerated(u, r)
    \/ \E u \in Tabs : \E r \in runs[u], upsertOk \in BOOLEAN : UpsertArrives(u, r, upsertOk)
    \/ \E u \in Tabs : \E r \in runs[u] : FinishGenerate(u, r)
    \/ SignOut

ProviderSpec == Init /\ [][ProviderNext]_vars

-----------------------------------------------------------------------------
(* The Verify page *)

\* verifyKeys as it would be with the two keys hashed in the other order
verifyKeysRsaFirst(u) ==
    LET ecdhPublicJwk == exportPublicJwk(keys[u].ecdhPublic)
        rsaPublicJwk == exportPublicJwk(keys[u].rsaPublic)
        fingerprintData == JSONstringify(rsaPublicJwk) \o JSONstringify(ecdhPublicJwk)
        computedFingerprint == sha256Hex(fingerprintData)
    IN  /\ last' = IF IsNone(keys[u]) \/ IsNone(user[u])
                   THEN [op |-> "verify", user |-> u, verified |-> FALSE, fingerprint |-> None]
                   ELSE [op |-> "verify", user |-> u, verified |-> TRUE,
                         fingerprint |-> computedFingerprint]
        /\ UNCHANGED <<localStorage, user_keys, keys, recipient, chatId, chats, messages, sent,
                       sentFile, storage, nextRand, encLog, reused, benchRuns, backupFile,
                       chatMessages, wrapLog, wrapReused, user, loading, runs, generations,
                       sealLog, chatView, creating>>

\* verifyKeys: without keys or user nothing is verified; else the public keys
\* in memory are exported and their fingerprint is computed and shown
verifyKeys(u) ==
    LET ecdhPublicJwk == exportPublicJwk(keys[u].ecdhPublic)
        rsaPublicJwk == exportPublicJwk(keys[u].rsaPublic)
        fingerprintData == JSONstringify(ecdhPublicJwk) \o JSONstringify(rsaPublicJwk)
        computedFingerprint == sha256Hex(fingerprintData)
    IN  /\ last' = IF IsNone(keys[u]) \/ IsNone(user[u])
                   THEN [op |-> "verify", user |-> u, verified |-> FALSE, fingerprint |-> None]
                   ELSE [op |-> "verify", user |-> u, verified |-> TRUE,
                         fingerprint |-> computedFingerprint]
        /\ UNCHANGED <<localStorage, user_keys, keys, recipient, chatId, chats, messages, sent,
                       sentFile, storage, nextRand, encLog, reused, benchRuns, backupFile,
                       chatMessages, wrapLog, wrapReused, user, loading, runs, generations,
                       sealLog, chatView, creating>>

VerifyKeys == \E u \in Tabs : verifyKeys(u)

VerifyNext ==
    \/ ProviderNext
    \/ VerifyKeys

VerifySpec == Init /\ [][VerifyNext]_vars

-----------------------------------------------------------------------------
(* Bytes as numbers: the bit utilities of lib/crypto/hash.ts and the base64  *)
(* codec of lib/crypto/symmetric.ts, run on buffers of concrete bytes        *)

MaxBufLen == 3      \* bytes of a buffer given to flipRandomBit or the codec
MaxPairLen == 2     \* bytes of each of two buffers that are compared

\* byte values: no bit set, every bit, the lowest, the highest, every other
SampleBytes == {0, 1, 128, 170, 255}

BuffersUpTo(n) == UNION {[1..k -> SampleBytes] : k \in 0..n}

\* bit i of byte x
Bit(x, i) == (x \div (2 ^ i)) % 2

\* x ^ y on two bytes
Xor(x, y) ==
    LET d(i) == ((Bit(x, i) + Bit(y, i)) % 2) * (2 ^ i)
    IN  d(0) + d(1) + d(2) + d(3) + d(4) + d(5) + d(6) + d(7)

\* n.toString(2): the binary digits, "0" for zero
RECURSIVE toString2(_)
toString2(n) ==
    IF n < 2 THEN <<n>> ELSE Append(toString2(n \div 2), n % 2)

\* text.split('1').length - 1: the number of digits 1
OnesOf(digits) == Cardinality({k \in 1..Len(digits) : digits[k] = 1})

RECURSIVE SumOnes(_, _, _)
SumOnes(a, b, i) ==
    IF i > Len(a) THEN 0
    ELSE OnesOf(toString2(Xor(a[i], b[i]))) + SumOnes(a, b, i + 1)

\* counts byte positions instead of bit positions
hammingDistanceBytes(a, b) ==
    IF Len(a) # Len(b) THEN [threw |-> TRUE]
    ELSE [threw |-> FALSE, value |-> Cardinality({i \in 1..Len(a) : a[i] # b[i]})]

hammingDistanceBits(a, b) ==
    IF Len(a) # Len(b) THEN [threw |-> TRUE]
    ELSE [threw |-> FALSE, value |-> SumOnes(a, b, 1)]

\* (distance / totalBits) * 100 as the fraction num / den; 0 / 0 is NaN
bitDifferencePercent(a, b) ==
    LET distance == hammingDistanceBits(a, b)
        totalBits == Len(a) * 8
    IN  IF distance.threw THEN [threw |-> TRUE]
        ELSE IF totalBits = 0 THEN [threw |-> FALSE, nan |-> TRUE]
        ELSE [threw |-> FALSE, nan |-> FALSE, num |-> distance.value * 100, den |-> totalBits]

\* sets the chosen bit instead of flipping it
flipRandomBitSets(data, byteIndex, bitIndex) ==
    IF byteIndex + 1 > Len(data) THEN [copy |-> data, data |-> data]
    ELSE [copy |-> [data EXCEPT ![byteIndex + 1] =
                        IF Bit(@, bitIndex) = 1 THEN @ ELSE @ + 2 ^ bitIndex],
          data |-> data]

\* byteIndex, bitIndex: what the two Math.random() calls gave.  A write past
\* the end of a typed array does nothing.  data: the input after the call.
flipRandomBit(data, byteIndex, bitIndex) ==
    IF byteIndex + 1 > Len(data) THEN [copy |-> data, data |-> data]
    ELSE [copy |-> [data EXCEPT ![byteIndex + 1] = Xor(@, 2 ^ bitIndex)], data |-> data]

\* Math.floor(Math.random() * length)
ByteIndexes(data) == IF Len(data) = 0 THEN {0} ELSE 0..(Len(data) - 1)

\* the '=' of base64, beside the 64 characters 0..63
PadChar == 64

\* a group that forgets the bits of a lone last byte that spill into the
\* second character
base64GroupShort(g) ==
    LET x(i) == IF i <= Len(g) THEN g[i] ELSE 0
        n == x(1) * 65536 + x(2) * 256 + x(3)
    IN  CASE Len(g) = 3 -> <<n \div 262144, (n \div 4096) % 64, (n \div 64) % 64, n % 64>>
          [] Len(g) = 2 -> <<n \div 262144, (n \div 4096) % 64, (n \div 64) % 64, PadChar>>
          [] Len(g) = 1 -> <<n \div 262144, 0, PadChar, PadChar>>

\* btoa on up to three bytes: four characters, padded
base64Group(g) ==
    LET x(i) == IF i <= Len(g) THEN g[i] ELSE 0
        n == x(1) * 65536 + x(2) * 256 + x(3)
    IN  CASE Len(g) = 3 -> <<n \div 262144, (n \div 4096) % 64, (n \div 64) % 64, n % 64>>
          [] Len(g) = 2 -> <<n \div 262144, (n \div 4096) % 64, (n \div 64) % 64, PadChar>>
          [] Len(g) = 1 -> <<n \div 262144, (n \div 4096) % 64, PadChar, PadChar>>

\* btoa of the string of the bytes' char codes
RECURSIVE btoa(_)
btoa(bytes) ==
    IF Len(bytes) = 0 THEN <<>>
    ELSE IF Len(bytes) <= 3 THEN base64Group(bytes)
    ELSE base64Group(SubSeq(bytes, 1, 3)) \o btoa(SubSeq(bytes, 4, Len(bytes)))

\* atob on four characters: three bytes, fewer for a padded group
atobGroup(q) ==
    LET v(i) == IF q[i] = PadChar THEN 0 ELSE q[i]
        n == v(1) * 262144 + v(2) * 4096 + v(3) * 64 + v(4)
        pads == Cardinality({i \in 1..4 : q[i] = PadChar})
    IN  SubSeq(<<n \div 65536, (n \div 256) % 256, n % 256>>, 1, 3 - pads)

\* atob, then the char codes of the binary string
RECURSIVE atob(_)
atob(text) ==
    IF Len(text) = 0 THEN <<>>
    ELSE atobGroup(SubSeq(text, 1, 4)) \o atob(SubSeq(text, 5, Len(text)))

\* nothing but last changes
BitsUnchanged ==
    UNCHANGED <<localStorage, user_keys, keys, recipient, chatId, chats, messages, sent,
                sentFile, storage, nextRand, encLog, reused, benchRuns, backupFile,
                chatMessages, wrapLog, wrapReused, user, loading, runs, generations, sealLog,
                chatView, creating>>

\* the relay and the browsers as in Init; one buffer or two are at hand
BitsInit ==
    /\ localStorage = [u \in Users |-> None]
    /\ user_keys = [u \in Users |-> None]
    /\ keys = [u \in Users |-> None]
    /\ recipient = [u \in Users |-> None]
    /\ chatId = [u \in Users |-> None]
    /\ chats = {}
    /\ messages = <<>>
    /\ sent = <<>>
    /\ sentFile = <<>>
    /\ storage = {}
    /\ nextRand = 0
    /\ encLog = {}
    /\ reused = {}
    /\ benchRuns = 0
    /\ backupFile = None
    /\ chatMessages = [u \in Users |-> <<>>]
    /\ wrapLog = {}
    /\ wrapReused = {}
    /\ user = [u \in Users |-> None]
    /\ loading = [u \in Users |-> TRUE]
    /\ runs = [u \in Users |-> {}]
    /\ generations = [u \in Users |-> 0]
    /\ sealLog = <<>>
    /\ chatView = [u \in Users |-> ClosedView]
    /\ creating = {}
    /\ last \in {[op |-> "buffers", a |-> a, b |-> b] :
                    a \in BuffersUpTo(MaxPairLen), b \in BuffersUpTo(MaxPairLen)}
               \cup {[op |-> "buffer", data |-> d] : d \in BuffersUpTo(MaxBufLen)}

HammingDistanceBits ==
    /\ last.op = "buffers"
    /\ last' = [op |-> "hamming", a |-> last.a, b |-> last.b,
                result |-> hammingDistanceBits(last.a, last.b),
                swapped |-> hammingDistanceBits(last.b, last.a)]
    /\ BitsUnchanged

BitDifferencePercent ==
    /\ last.op = "buffers"
    /\ last' = [op |-> "percent", a |-> last.a, b |-> last.b,
                result |-> bitDifferencePercent(last.a, last.b)]
    /\ BitsUnchanged

FlipRandomBit ==
    /\ last.op = "buffer"
    /\ \E byteIndex \in ByteIndexes(last.data), bitIndex \in 0..7 :
          last' = [op |-> "flip", given |-> last.data, byteIndex |-> byteIndex,
                   bitIndex |-> bitIndex,
                   result |-> flipRandomBit(last.data, byteIndex, bitIndex)]
    /\ BitsUnchanged

\* arrayBufferToBase64 of a buffer and base64ToArrayBuffer of the text
Base64RoundTrip ==
    /\ last.op = "buffer"
    /\ last' = [op |-> "codec", given |-> last.data, base64 |-> btoa(last.data),
                decoded |-> atob(btoa(last.data))]
    /\ BitsUnchanged

BitsNext ==
    \/ HammingDistanceBits
    \/ BitDifferencePercent
    \/ FlipRandomBit
    \/ Base64RoundTrip

BitsSpec == BitsInit /\ [][BitsNext]_vars

-----------------------------------------------------------------------------
(* Properties *)

\* the row the relay delivered to the last open or analytics pass
Delivered == Tamper(messages[last.row], last.tamper)

Opened == last.op = "open"
Analyzed == last.op = "analytics"

\* what the last analytics pass recorded for the row the relay chose
Analysis == last.analytics[last.row]

TwoTags == {"ECDH", "RSA-OAEP"}

\* C1: round trip.  Whenever the recipient, holding the sender's well-formed
\* agreement public key, opens a stored envelope as the sender stored it, the
\* open succeeds and returns exactly the text that the sender sealed.
C1_RoundTrip ==
    (/\ Opened /\ last.tamper = NoTamper
     /\ last.user = messages[last.row].recipient_id
     /\ recipient[last.user].ecdh_public_key_jwk.wellFormed)
        => (~last.result.threw /\ last.result.text = sent[last.row])

\* C2: tamper detection.  Whenever an envelope is opened after one bit of its
\* ciphertext, its nonce or its wrapped key was changed, the open ends in an
\* error.
C2_TamperDetected ==
    (Opened /\ last.tamper.field \in {"ciphertext_base64", "iv_base64", "wrapped_key_base64"})
        => last.result.threw

\* C3: algorithm fallback.  A text send to a recipient whose agreement public
\* key is malformed, or whose agreement wrap threw, succeeds when the relay
\* accepts the row, and the stored row carries the encapsulation tag.
C3_FallbackSucceeds ==
    (/\ last.op = "send" /\ IsNone(last.selectedFile) /\ last.insertOk
     /\ \/ ~recipient[last.user].ecdh_public_key_jwk.wellFormed
        \/ \E i \in 1..Len(last.calls) : last.calls[i].threw)
        => (/\ last.ok
            /\ messages[Len(messages)].wrap_alg = "RSA-OAEP"
            /\ "rsa" \in DOMAIN messages[Len(messages)].wrapped_key_base64.b64)

\* C4: nonce uniqueness.  No payload encryption uses a (key, nonce) pair that
\* an earlier encryption used.
C4_NonceUnique == reused = {}

\* C5: a private key is persisted only sealed.  No value in localStorage
\* holds a private key in cleartext.
CleartextPrivate(v) ==
    \E f \in DOMAIN v : "d" \in DOMAIN v[f] /\ v[f].d

C5_SealedAtRest ==
    \A u \in Users : IsNone(localStorage[u]) \/ ~CleartextPrivate(localStorage[u])

\* C6: the relay sees no plaintext and no private key.  No directory row
\* holds a private key, no message row carries a file's name, type or size,
\* and no stored object is named after a file.
C6_RelayBlind ==
    /\ \A u \in Users : IsNone(user_keys[u]) \/ ~CleartextPrivate(
            [k \in {"ecdh_public_key_jwk", "rsa_public_key_jwk"} |-> user_keys[u][k]])
    /\ \A i \in 1..Len(messages) :
            \/ IsNone(messages[i].file_meta)
            \/ DOMAIN messages[i].file_meta \cap {"name", "type", "size"} = {}
    /\ \A o \in storage : "fname" \notin DOMAIN o.oname

\* C7: the integrity hash is checked on open.  Whenever the delivered
\* envelope's stored hash differs from the hash of its encoded ciphertext, a
\* chat open reports an error and an analytics pass reports the hash as not
\* verified.
HashMismatch(msg) == sha256Hex(msg.ciphertext_base64) # msg.hash_hex

C7_HashChecked ==
    /\ (Opened /\ HashMismatch(Delivered)) => last.result.threw
    /\ (Analyzed /\ HashMismatch(Delivered)) => ~Analysis.hash_verified

\* C8: dispatch strictly by tag.  For a delivered envelope tagged with one of
\* the two algorithms, every unwrap that an open or an analytics pass attempts
\* is the one the tag names (the file key's tag for the file key).
C8_DispatchByTag ==
    /\ Opened =>
        \A i \in 1..Len(last.result.calls) :
            LET c == last.result.calls[i]
                tag == IF c.target = "msg" THEN Delivered.wrap_alg
                       ELSE Delivered.file_meta.wrap_alg
            IN  tag \in TwoTags => c.path = tag
    /\ (Analyzed /\ Delivered.wrap_alg \in TwoTags) =>
        \A i \in 1..Len(Analysis.calls) : Analysis.calls[i] = Delivered.wrap_alg

\* C9: the tag has two variants.  Opening a delivered envelope whose tag is
\* neither of the two ends in an error without any unwrap being attempted.
C9_ThirdTagRejected ==
    /\ (Opened /\ Delivered.wrap_alg \notin TwoTags)
            => (last.result.threw /\ last.result.calls = <<>>)
    /\ (Analyzed /\ Delivered.wrap_alg \notin TwoTags)
            => (~Analysis.decryption_success /\ Analysis.calls = <<>>)

\* C10: sender selection policy.  In every send, for each key the agreement
\* wrap is the first wrap attempted and the encapsulation wrap follows only
\* an agreement wrap that threw; in every stored row the tag next to a
\* wrapped key is 'ECDH' exactly when that key is agreement-wrapped and
\* 'RSA-OAEP' exactly when it is encapsulation-wrapped.
AgreementFirst(calls) ==
    \A i \in 1..Len(calls) :
        /\ calls[i].path = "ECDH" => (i = 1 \/ calls[i - 1].target # calls[i].target)
        /\ calls[i].path = "RSA-OAEP" =>
                (i > 1 /\ calls[i - 1] = [target |-> calls[i].target, path |-> "ECDH", threw |-> TRUE])

TagNamesWrap(tag, wrapped) ==
    /\ tag \in TwoTags
    /\ tag = "ECDH" <=> "kek" \in DOMAIN wrapped
    /\ tag = "RSA-OAEP" <=> "rsa" \in DOMAIN wrapped

C10_SelectionPolicy ==
    /\ last.op = "send" => AgreementFirst(last.calls)
    /\ \A i \in 1..Len(messages) :
        /\ TagNamesWrap(messages[i].wrap_alg, messages[i].wrapped_key_base64.b64)
        /\ IsNone(messages[i].file_meta) \/
                TagNamesWrap(messages[i].file_meta.wrap_alg, messages[i].file_meta.wrapped_key.b64)

\* a file send is stored whose file key fell back to the encapsulation wrap
\* while its message key was agreement-wrapped
C10_Witness ==
    /\ last.op = "send" /\ last.ok /\ ~IsNone(last.selectedFile)
    /\ Len(last.calls) = 3
    /\ last.calls[2] = [target |-> "file", path |-> "RSA-OAEP", threw |-> FALSE]
    /\ messages[Len(messages)].wrap_alg = "ECDH"
    /\ messages[Len(messages)].file_meta.wrap_alg = "RSA-OAEP"

-----------------------------------------------------------------------------
\* the row the last open was given was sent with a file, and the opener is its
\* recipient, holding the sender's well-formed agreement key
FileOpened ==
    /\ Opened /\ last.tamper = NoTamper
    /\ ~IsNone(sentFile[last.row])
    /\ last.user = messages[last.row].recipient_id
    /\ recipient[last.user].ecdh_public_key_jwk.wellFormed

\* the row carries the file: inline in file_meta, or by a reference in file_url
EmbedsFile(row) ==
    \/ "storage_type" \in DOMAIN row.file_meta
    \/ ~("null" \in DOMAIN row.file_url)

\* C11: file round trip.  Every stored row that was sent with a file embeds
\* either the inline ciphertext or a reference to the stored object, and when
\* its recipient opens it the open returns the bytes of the file that was sent.
C11_FileRoundTrip ==
    FileOpened
        => (/\ EmbedsFile(messages[last.row])
            /\ last.result.hasFile
            /\ last.result.file.bytes = [fileId |-> sentFile[last.row].fileId,
                                         size |-> sentFile[last.row].size])


\* the last send sealed a file and every upload of it failed
UploadFailed ==
    /\ last.op = "send" /\ ~IsNone(last.selectedFile) /\ last.encs # <<>>
    /\ last.up[1] # "ok"
    /\ ~(last.up[1] = "notfound" /\ last.up[2] = "ok" /\ last.up[3] = "ok")

\* the length in bytes of the ciphertext of a file
CiphertextLen(f) == f.size + GcmTagLen

\* C12: inline fallback threshold.  When the upload fails, the send stores the
\* file inline (the row, once inserted, carries the inline ciphertext) exactly
\* when the ciphertext is smaller than 5 MiB, and fails without a row otherwise.
C12_InlineThreshold ==
    UploadFailed
        => IF CiphertextLen(last.selectedFile) < InlineLimit
           THEN last.insertOk
                    => (/\ last.ok /\ messages # <<>>
                        /\ "storage_type" \in DOMAIN messages[Len(messages)].file_meta)
           ELSE ~last.ok


-----------------------------------------------------------------------------
Imported == last.op = "import"

\* C13: backup round trip.  Importing the unchanged file under the passphrase
\* it was exported with returns the bundle that was exported, and importing
\* it under any other passphrase fails.
C13_BackupRoundTrip ==
    (Imported /\ last.tamper = NoTamper)
        => IF last.passphrase = backupFile.passphrase
           THEN /\ last.result.ok
                /\ last.result.value = [ecdhPrivateJwk |-> backupFile.ecdhPrivateJwk,
                                        rsaPrivateJwk |-> backupFile.rsaPrivateJwk]
           ELSE ~last.result.ok

\* C14: restore failure is opaque.  An import under another passphrase and an
\* import of a file any part of which was changed end in the same error.
C14_OpaqueFailure ==
    (Imported /\ (last.tamper # NoTamper \/ last.passphrase # backupFile.passphrase))
        => (~last.result.ok /\ last.result.error = InvalidBackup)


-----------------------------------------------------------------------------
\* the client holds its keys and the sender's well-formed agreement key
Ready(u) ==
    /\ ~IsNone(keys[u]) /\ ~IsNone(recipient[u])
    /\ recipient[u].ecdh_public_key_jwk.wellFormed

\* entry e of a list is what row e.id, delivered with change t, has to show:
\* the placeholder if it was changed, the text that was sent if it was not
ShowsRow(u, e, t) ==
    IF t # NoTamper THEN e.decryptedContent = DecryptionFailed
    ELSE Ready(u) => (e.decryptedContent = sent[e.id] /\ IsNone(e.decryptedFile))

\* after a load the list has one entry for every row, each as its own row
\* requires, whatever happened to the others
LoadIsolated ==
    (last.op = "load" /\ ~last.error)
        => LET list == chatMessages[last.user]
           IN  /\ Len(list) = Len(messages)
               /\ \A i \in 1..Len(list) :
                     list[i].id = i /\ ShowsRow(last.user, list[i], last.tampers[i])

\* after a notification the list ends with the entry of the row notified, and
\* every entry of the list is the placeholder or the text of its row
NotifyIsolated ==
    last.op = "notify"
        => LET list == chatMessages[last.user]
           IN  /\ list # <<>> /\ list[Len(list)].id = last.row
               /\ ShowsRow(last.user, list[Len(list)], last.tamper)
               /\ \A k \in 1..Len(list) :
                     list[k].decryptedContent = DecryptionFailed
                        \/ (Ready(last.user) => list[k].decryptedContent = sent[list[k].id])

\* the analytics pass records every row, and a row other than the changed one
\* has its hash verified
AnalyticsIsolated ==
    Analyzed
        => /\ Len(last.analytics) = Len(messages)
           /\ \A j \in 1..Len(messages) : j # last.row => last.analytics[j].hash_verified

\* C15: failures are isolated per envelope.  When a list is loaded, a message
\* arrives on the notification channel or the analytics pass runs, an envelope
\* that fails to open is shown as the placeholder (recorded as failed) and
\* every other envelope is still opened and shown.
C15_FailuresIsolated == LoadIsolated /\ NotifyIsolated /\ AnalyticsIsolated

\* a loaded list of two rows of which the first failed and the second opened
C15_Witness ==
    /\ last.op = "load" /\ ~last.error /\ Ready(last.user)
    /\ Len(chatMessages[last.user]) = 2
    /\ last.tampers[1] # NoTamper /\ last.tampers[2] = NoTamper
    /\ chatMessages[last.user][1].decryptedContent = DecryptionFailed
    /\ chatMessages[last.user][2].decryptedContent = sent[2]


-----------------------------------------------------------------------------
\* the last open was given a row in which a bit of the message ciphertext, of
\* its nonce or of the inline file ciphertext was changed: AES-GCM rejects it
AeadFails ==
    /\ Opened /\ last.tamper.kind = "head"
    /\ last.tamper.field \in {"ciphertext_base64", "iv_base64", "file_meta"}

\* C16: an AEAD failure while an envelope is opened, for the message
\* ciphertext or for the file sub-envelope, ends the open in an error, and
\* the open returns no plaintext.
C16_AeadFailureSurfaces ==
    AeadFails
        => (/\ last.result.threw
            /\ ~("text" \in DOMAIN last.result)
            /\ ~last.result.hasFile)


-----------------------------------------------------------------------------
\* the change the relay made leaves the ciphertext text and the hash alone
HashUntouched(t) == t.field \notin {"ciphertext_base64", "hash_hex"}

\* C17: every stored row carries the SHA-256 of its stored ciphertext text,
\* not of the plaintext, and the verifier computes the same function over the
\* same field: an envelope whose two fields are as stored always verifies.
C17_HashOfCiphertext ==
    /\ \A i \in 1..Len(messages) :
          /\ messages[i].hash_hex = sha256Hex(messages[i].ciphertext_base64)
          /\ messages[i].hash_hex # sha256Hex(stringToArrayBuffer(sent[i]))
    /\ Analyzed
          => \A j \in 1..Len(messages) :
                (j # last.row \/ HashUntouched(last.tamper)) => last.analytics[j].hash_verified

\* a pass over a stored row as it was stored, its hash verified
C17_Witness ==
    /\ Analyzed /\ last.tamper = NoTamper
    /\ messages[last.row].hash_hex = sha256Hex(messages[last.row].ciphertext_base64)
    /\ Analysis.hash_verified


-----------------------------------------------------------------------------
\* C18: single-use KEK.  No two agreement-path wraps use the same private
\* key, peer public key and salt, that is the same KEK: every wrap draws its
\* own salt, the file key and the message key of one send included, so the
\* nonce taken from the salt is never used twice under one KEK.
C18_SingleUseKek == wrapReused = {}

\* a send that wrapped its file key and its message key on the agreement path
C18_Witness ==
    /\ last.op = "send" /\ ~IsNone(last.selectedFile)
    /\ Len(last.calls) = 2
    /\ \A k \in 1..2 : last.calls[k].path = "ECDH" /\ ~last.calls[k].threw
    /\ Cardinality(wrapLog) >= 2
    /\ \E a \in wrapLog, b \in wrapLog : a # b /\ a.shared = b.shared


-----------------------------------------------------------------------------
\* the pair the unwrap was tried with is the wrapping pair or its mirror
MatchingPair ==
    \/ last.unwrapPriv = last.wrapPriv /\ last.unwrapPub = last.wrapPub
    \/ last.unwrapPriv = last.wrapPub /\ last.unwrapPub = last.wrapPriv

\* C19: the agreement-path unwrap fails whenever the wrapped key was changed,
\* the salt differs from the salt of the wrap, or the key pair is not one of
\* the two matching pairs.
C19_UnwrapFails ==
    (/\ last.op = "unwrap"
     /\ (last.keyChanged \/ last.saltChange # "none" \/ ~MatchingPair))
        => ~last.result.ok


-----------------------------------------------------------------------------
\* the last handler was one that writes the user_keys table, and the user's
\* row was there before it ran
WroteIdentity ==
    /\ last.op \in {"loadKeys", "saveSettings"}
    /\ "before" \in DOMAIN last
    /\ ~IsNone(last.before)

\* C20: once a user's identity record is published, its agreement public
\* key, its encapsulation public key and its fingerprint never change and the
\* record is never deleted: a key load, a refresh or a settings save leaves
\* all of the row but the display name as it was.
C20_IdentityImmutable ==
    WroteIdentity
        => LET row == user_keys[last.user]
           IN  /\ ~IsNone(row)
               /\ row.ecdh_public_key_jwk = last.before.ecdh_public_key_jwk
               /\ row.rsa_public_key_jwk = last.before.rsa_public_key_jwk
               /\ row.fingerprint = last.before.fingerprint


\* C21: over any interleaving of the session callbacks and refreshKeys of one
\* user, the provider generates the identity keypairs at most once
C21_GeneratedOnce == \A u \in Users : generations[u] <= 1

\* the provider of u has no loadOrGenerateKeys call waiting
Quiet(u) == runs[u] = {}

\* the key ids of the public keys in memory, in localStorage and in the directory
HeldKids(u) == <<keys[u].ecdhPublic.kid, keys[u].rsaPublic.kid>>
StoredKids(u) == <<localStorage[u].ecdhPublicJwk.kid, localStorage[u].rsaPublicJwk.kid,
                   localStorage[u].ecdhPrivateJwk.kid, localStorage[u].rsaPrivateJwk.kid>>
PublishedKids(u) == <<user_keys[u].ecdh_public_key_jwk.kid, user_keys[u].rsa_public_key_jwk.kid>>

\* C28: once the loadOrGenerateKeys calls of a user have all finished, the
\* keypairs in memory, the keys in localStorage and the public keys in the
\* directory belong to one generated identity
C28_OneIdentity ==
    \A u \in Users :
        (Quiet(u) /\ ~IsNone(keys[u]) /\ ~IsNone(localStorage[u]) /\ ~IsNone(user_keys[u]))
            => /\ StoredKids(u) = HeldKids(u) \o HeldKids(u)
               /\ PublishedKids(u) = HeldKids(u)

\* C29: when localStorage holds a key bundle of a user and no loadOrGenerateKeys
\* call is waiting, the directory holds that bundle's public keys
C29_StoredIsPublished ==
    \A u \in Users :
        (Quiet(u) /\ ~IsNone(localStorage[u]))
            => /\ ~IsNone(user_keys[u])
               /\ user_keys[u].ecdh_public_key_jwk = localStorage[u].ecdhPublicJwk
               /\ user_keys[u].rsa_public_key_jwk = localStorage[u].rsaPublicJwk

\* C30: the provider holds no keys while it has no user
C30_NoKeysWithoutUser == \A u \in Users : IsNone(user[u]) => IsNone(keys[u])

\* the public JWKs a generated keypair of each kind can have
EcdhPublicJwks == {exportPublicJwk(generateECDHKeypair(n)) : n \in 1..MaxRand}
RsaPublicJwks == {exportPublicJwk(generateRSAKeypair(n)) : n \in 1..MaxRand}

\* the Verify page has computed a fingerprint of the keys in memory
Verified == last.op = "verify" /\ last.verified

HeldEcdhJwk == exportPublicJwk(keys[last.user].ecdhPublic)
HeldRsaJwk == exportPublicJwk(keys[last.user].rsaPublic)

\* C22: the fingerprint verifyKeys computes equals the fingerprint published
\* for a pair of public keys exactly if the pair is the pair in memory, agreement
\* key first: it equals the published fingerprint of the same keys, differs
\* from that of every pair in which either key differs, and differs from the
\* hash of the same two keys in the other order
C22_FingerprintFunction ==
    Verified =>
        /\ \A e \in EcdhPublicJwks, r \in RsaPublicJwks :
                (last.fingerprint = sha256Hex(FingerprintData(e, r)))
                    <=> (e = HeldEcdhJwk /\ r = HeldRsaJwk)
        /\ last.fingerprint # sha256Hex(FingerprintData(HeldRsaJwk, HeldEcdhJwk))
        /\ \A v \in Users :
                (~IsNone(user_keys[v]) /\ user_keys[v].ecdh_public_key_jwk = HeldEcdhJwk
                    /\ user_keys[v].rsa_public_key_jwk = HeldRsaJwk)
                    => user_keys[v].fingerprint = last.fingerprint

\* keys that were loaded from localStorage are verified while the directory
\* holds their published row
C22_Witness ==
    /\ Verified
    /\ ~IsNone(user_keys[last.user])
    /\ user_keys[last.user].fingerprint = last.fingerprint
    /\ last.fingerprint = sha256Hex(FingerprintData(HeldEcdhJwk, HeldRsaJwk))
    /\ generations[last.user] = 1

-----------------------------------------------------------------------------
\* the bytes of a stored base64 field
Bytes(base64) == base64ToArrayBuffer(base64).bytes

\* the key the recipient's unwrap of a stored wrapped key gives
RecipientUnwrap(row, tag, wrapped_key, salt) ==
    IF tag = "ECDH"
    THEN unwrapAesKeyWithECDH(Bytes(wrapped_key), keys[row.recipient_id].ecdhPrivate,
                              keys[row.sender_id].ecdhPublic, Bytes(salt))
    ELSE unwrapAesKeyWithRSA(Bytes(wrapped_key), keys[row.recipient_id].rsaPrivate)

FileKeyOf(row) ==
    RecipientUnwrap(row, row.file_meta.wrap_alg, row.file_meta.wrapped_key, row.file_meta.salt)

MessageKeyOf(row) ==
    RecipientUnwrap(row, row.wrap_alg, row.wrapped_key_base64, row.salt_base64)

\* the stored rows that carry a file sub-envelope
FileRows == {i \in 1..Len(messages) : ~IsNone(messages[i].file_meta)}

\* C23: in every stored file message the file's nonce, salt and key differ from
\* the message's nonce, salt and key, and the wrapped key of the file
\* sub-envelope unwraps to the key the file was encrypted under, which is not
\* the key of the message ciphertext
C23_FileEnvelopeIndependent ==
    \A i \in FileRows :
        LET row == messages[i] IN
        ~IsNone(keys[row.recipient_id]) =>
            /\ Bytes(row.file_meta.iv) # Bytes(row.iv_base64)
            /\ Bytes(row.file_meta.salt) # Bytes(row.salt_base64)
            /\ Bytes(row.file_meta.iv) # slice12(Bytes(row.salt_base64))
            /\ FileKeyOf(row).ok /\ MessageKeyOf(row).ok
            /\ FileKeyOf(row).key # MessageKeyOf(row).key
            /\ MessageKeyOf(row).key = Bytes(row.ciphertext_base64).ctkey
            /\ FileKeyOf(row).key # Bytes(row.ciphertext_base64).ctkey
            /\ "encrypted_data_base64" \in DOMAIN row.file_meta
                 => FileKeyOf(row).key = Bytes(row.file_meta.encrypted_data_base64).ctkey
            /\ (i = Len(messages) /\ last.op = "send" /\ last.ok)
                 => /\ last.encs[1] = [key |-> FileKeyOf(row).key, iv |-> Bytes(row.file_meta.iv)]
                    /\ last.encs[2] = [key |-> MessageKeyOf(row).key, iv |-> Bytes(row.iv_base64)]

\* a file message was sent and stored, both keys wrapped on the agreement path
C23_Witness ==
    /\ last.op = "send" /\ last.ok /\ FileRows # {}
    /\ \E i \in FileRows :
          /\ ~IsNone(keys[messages[i].recipient_id])
          /\ messages[i].file_meta.wrap_alg = "ECDH"
          /\ messages[i].wrap_alg = "ECDH"
          /\ FileKeyOf(messages[i]).ok

-----------------------------------------------------------------------------
\* the names of the keys genAesGcmKey can return, in a send or in the benchmark
GeneratedKeyTexts ==
    {ToString(genAesGcmKey(n)) : n \in (0 - (MaxBench + 1) * BenchDraws)..MaxRand}

\* k is a key that genAesGcmKey returned, not a key that was derived
IsGeneratedKey(k) == ToString(k) \in GeneratedKeyTexts

\* the keys the stored wrapped keys of a row hold: the only keys an unwrap of
\* the row can return, hence the only keys a payload decryption is given
WrappedIn(row) ==
    {Bytes(row.wrapped_key_base64).wkey} \cup
    (IF IsNone(row.file_meta) THEN {} ELSE {Bytes(row.file_meta.wrapped_key).wkey})

\* C24: a KEK derived by deriveKEK_ECDH only wraps and unwraps: the key of
\* every payload encryption (send, analytics) and every key an
\* unwrap can hand to a payload decryption is a generated message or file key,
\* and no KEK a wrap used is one of these
C24_KekOnlyWraps ==
    /\ \A e \in encLog : IsGeneratedKey(e.key)
    /\ \A i \in 1..Len(messages) : \A k \in WrappedIn(messages[i]) : IsGeneratedKey(k)
    /\ \A kek \in wrapLog : ~IsGeneratedKey(kek)

\* the recipient's list shows an agreement-wrapped message after the analytics
\* page has encrypted under its unwrapped key: a KEK was derived for the wrap,
\* for the unwrap of the open and for the unwrap of the analytics pass
C24_Witness ==
    /\ last.op = "load" /\ ~last.error /\ Ready(last.user)
    /\ Len(chatMessages[last.user]) >= 1
    /\ last.tampers[1] = NoTamper /\ messages[1].wrap_alg = "ECDH"
    /\ chatMessages[last.user][1].decryptedContent = sent[1]
    /\ wrapLog # {} /\ reused # {}


-----------------------------------------------------------------------------
(* C25: salts, nonces and the key derivation of the backup *)

\* the key and the nonce a sealed backup's ciphertext is under
SealedUnder(blob) ==
    [key |-> Bytes(blob.ciphertext).ctkey, iv |-> Bytes(blob.ciphertext).ctiv]

\* the file the last import was given
ImportedBlob == TamperBackup(backupFile.blob, last.tamper)

\* C25: every seal takes a salt of 16 bytes and a nonce that no earlier seal
\* took, and seals under the key PBKDF2 derives from the passphrase and that
\* salt with 200000 iterations, so no two seals share a (key, nonce) pair; a
\* restore that succeeds derived, from the salt stored in the file and with
\* the same iteration count, the key the file was sealed under, and a restore
\* of the unchanged file under the seal's passphrase succeeds
C25_FreshSealSameDerivation ==
    /\ \A i \in 1..Len(sealLog) :
          /\ ByteLen(sealLog[i].salt) = SaltLen
          /\ ByteLen(sealLog[i].iv) = IvLen
          /\ \A j \in 1..Len(sealLog) :
                i < j => /\ sealLog[i].salt # sealLog[j].salt
                         /\ sealLog[i].iv # sealLog[j].iv
    /\ last.op = "export" =>
          /\ SealedUnder(backupFile.blob).key =
                deriveKeyFromPassphrase(last.passphrase, sealLog[Len(sealLog)].salt)
          /\ SealedUnder(backupFile.blob).key.iterations = 200000
          /\ SealedUnder(backupFile.blob).iv = sealLog[Len(sealLog)].iv
    /\ last.op = "import" =>
          /\ last.result.ok =>
                /\ deriveKeyFromPassphrase(last.passphrase, Bytes(ImportedBlob.salt))
                      = SealedUnder(ImportedBlob).key
                /\ deriveKeyFromPassphrase(last.passphrase, Bytes(ImportedBlob.salt)).iterations
                      = SealedUnder(backupFile.blob).key.iterations
          /\ last.tamper = NoTamper /\ last.passphrase = backupFile.passphrase
                => last.result.ok

\* the keys were sealed twice, under one passphrase, and the second file was
\* restored under it
C25_Witness ==
    /\ Len(sealLog) >= 2
    /\ last.op = "import"
    /\ last.tamper = NoTamper
    /\ last.passphrase = backupFile.passphrase
    /\ last.result.ok


-----------------------------------------------------------------------------
(* C26: lengths of nonce and salt, and the nonce of the wrap *)

\* the envelope of a stored row and its file sub-envelope, if it has one
EnvelopesOf(row) ==
    {[sender_id |-> row.sender_id, recipient_id |-> row.recipient_id, part |-> "msg",
      iv |-> row.iv_base64, salt |-> row.salt_base64,
      wrapped_key |-> row.wrapped_key_base64, wrap_alg |-> row.wrap_alg]}
    \cup (IF IsNone(row.file_meta) THEN {}
          ELSE {[sender_id |-> row.sender_id, recipient_id |-> row.recipient_id,
                 part |-> "file",
                 iv |-> row.file_meta.iv, salt |-> row.file_meta.salt,
                 wrapped_key |-> row.file_meta.wrapped_key,
                 wrap_alg |-> row.file_meta.wrap_alg]})

Envelopes == UNION {EnvelopesOf(messages[i]) : i \in 1..Len(messages)}

\* the recipient's two unwraps of a wrapped key w that came with envelope e
WrapUnwrap(e, w) ==
    unwrapAesKeyWithECDH(w, keys[e.recipient_id].ecdhPrivate,
                         keys[e.sender_id].ecdhPublic, Bytes(e.salt))

AnalyticsUnwrap(e, w) ==
    unwrapAesKeyForAnalytics(w, e.wrap_alg, keys[e.recipient_id].ecdhPrivate,
                             keys[e.recipient_id].rsaPrivate,
                             keys[e.sender_id].ecdhPublic, Bytes(e.salt)).key

\* C26: every stored envelope and file sub-envelope has a nonce of 12 bytes
\* and a salt of 16 bytes; a key wrapped on the agreement path is wrapped
\* under the first 12 bytes of the envelope's salt, the unwrap and the
\* analytics unwrap open it with that salt, and both reject the same wrapped
\* key under another nonce
C26_NonceSaltAndWrapNonce ==
    \A e \in Envelopes :
        /\ ByteLen(Bytes(e.iv)) = 12
        /\ ByteLen(Bytes(e.salt)) = 16
        /\ e.wrap_alg = "ECDH" =>
              LET w == Bytes(e.wrapped_key)
                  elsewhere == [w EXCEPT !.wiv = Bytes(e.iv)]
              IN  /\ w.wiv = slice12(Bytes(e.salt))
                  /\ ByteLen(w.wiv) = 12
                  /\ (~IsNone(keys[e.recipient_id]) /\ ~IsNone(keys[e.sender_id])) =>
                        /\ WrapUnwrap(e, w).ok
                        /\ AnalyticsUnwrap(e, w) = [k |-> WrapUnwrap(e, w).key]
                        /\ ~WrapUnwrap(e, elsewhere).ok
                        /\ IsNone(AnalyticsUnwrap(e, elsewhere))

\* a message with a file is stored, both keys wrapped on the agreement path,
\* and the recipient holds keys
C26_Witness ==
    \E e, f \in Envelopes :
        /\ e.part = "msg" /\ f.part = "file"
        /\ e.wrap_alg = "ECDH" /\ f.wrap_alg = "ECDH"
        /\ ~IsNone(keys[e.recipient_id]) /\ ~IsNone(keys[e.sender_id])
        /\ ~IsNone(AnalyticsUnwrap(e, Bytes(e.wrapped_key)))
        /\ ~IsNone(AnalyticsUnwrap(f, Bytes(f.wrapped_key)))


-----------------------------------------------------------------------------
(* C27: the sender's own read of a stored message *)

\* the last step was the sender's decryptMessage on the unchanged row it stored
SenderOpened ==
    /\ last.op = "open"
    /\ last.tamper = NoTamper
    /\ messages[last.row].sender_id = last.user

\* the text a sealed plaintext decodes to
Decoded(text) == arrayBufferToString(stringToArrayBuffer(text))

\* C27: when the sender opens a row it stored, whichever way the key was
\* wrapped, decryptMessage returns the text that was sealed
C27_SenderReadsBack ==
    SenderOpened =>
        /\ ~last.result.threw
        /\ last.result.text = Decoded(sent[last.row])



-----------------------------------------------------------------------------
(* C31: the displayed list against the stored rows *)

\* loadMessages has set the list, the channel is joined and has nothing left
\* to deliver
ListSettled(u) ==
    /\ chatView[u].load = "done"
    /\ chatView[u].joined
    /\ chatView[u].next > Len(messages)

\* how often row i is in the list of u
TimesShown(u, i) ==
    Cardinality({k \in 1..Len(chatMessages[u]) : chatMessages[u][k].id = i})

\* C31: once loadMessages has completed and every pending delivery is handled,
\* each stored row of the open chat is in the displayed list exactly once
C31_EachRowOnce ==
    \A u \in Receivers :
        ListSettled(u) =>
            \A i \in 1..Len(messages) :
                messages[i].chat_id = chatId[u] => TimesShown(u, i) = 1


-----------------------------------------------------------------------------
(* C32: what a failed send leaves behind *)

\* the step is a sendMessage that failed: an import, the upload or the insert
FailedSend == last'.op = "send" /\ ~last'.ok

\* C32: a send that fails adds no row and no stored object, and leaves the
\* typed text and the selected file as they were
C32_FailedSendChangesNothing ==
    [][FailedSend => /\ messages' = messages
                     /\ storage' = storage
                     /\ ~last'.cleared]_vars


-----------------------------------------------------------------------------
(* C33: find-or-create of the chat of a pair *)

\* u has run loadRecipientAndChat and the run has returned
ChatLoaded(u) == ~IsNone(recipient[u]) /\ u \notin creating

\* C33: both users compute the same room id, and when both have run
\* loadRecipientAndChat to its end there is one chat row of the pair and each
\* client's chatId is that row
C33_FindOrCreateConverges ==
    /\ \A a, b \in Users : roomId(a, b) = roomId(b, a)
    /\ (\A u \in Users : ChatLoaded(u)) =>
          /\ Cardinality(chats) = 1
          /\ \A u \in Users : chatId[u] = [room |-> roomId(u, Other(u))]


-----------------------------------------------------------------------------
(* C34: the caption of a file message whose file part fails *)

\* the row the last open was given
OpenedRow == Tamper(messages[last.row], last.tamper)

\* the message's own key unwraps and its ciphertext decrypts, for the reader
\* of the last open; pt: the plaintext bytes
OwnEnvelope ==
    LET u == last.user
        msg == OpenedRow
        iv == base64ToArrayBuffer(msg.iv_base64)
        salt == base64ToArrayBuffer(msg.salt_base64)
        ciphertext == base64ToArrayBuffer(msg.ciphertext_base64)
        wrappedKey == base64ToArrayBuffer(msg.wrapped_key_base64)
        k == UnwrapByTag(u, "msg", msg.wrap_alg, msg.sender_id, wrappedKey.bytes,
                         salt.bytes, None)
        decrypted == aesGcmDecrypt(k.key, iv.bytes, ciphertext.bytes)
    IN  IF IsNone(keys[u]) \/ IsNone(recipient[u]) THEN [ok |-> FALSE]
        ELSE IF ~iv.ok \/ ~salt.ok \/ ~ciphertext.ok \/ ~wrappedKey.ok THEN [ok |-> FALSE]
        ELSE IF ~k.ok THEN [ok |-> FALSE]
        ELSE IF ~decrypted.ok THEN [ok |-> FALSE]
        ELSE [ok |-> TRUE, pt |-> decrypted.bytes]

\* the file part of the row of the last open, opened on its own
FilePart == OpenFile(last.user, OpenedRow, Download(OpenedRow.file_url))

\* C34: when a file message's own key unwraps and its ciphertext decrypts,
\* decryptMessage returns the caption that was sealed, whatever happens to
\* the file part, and returns a file only when the file sub-envelope opened
C34_CaptionSurvives ==
    (/\ last.op = "open"
     /\ ~IsNone(messages[last.row].file_meta)
     /\ OwnEnvelope.ok)
        => /\ ~last.result.threw
           /\ last.result.text = arrayBufferToString(OwnEnvelope.pt)
           /\ last.result.text = Decoded(sent[last.row])
           /\ last.result.hasFile <=> FilePart.has

\* a file message was opened, its text came back and its file did not
C34_Witness ==
    /\ last.op = "open"
    /\ ~IsNone(messages[last.row].file_meta)
    /\ OwnEnvelope.ok
    /\ ~FilePart.has
    /\ ~last.result.threw
    /\ ~last.result.hasFile
    /\ last.result.text = caption(sentFile[last.row])


-----------------------------------------------------------------------------
(* C35, C36: the bit utilities *)

\* the bit positions in which two buffers of one length differ
DiffBits(a, b) ==
    Cardinality({p \in (1..Len(a)) \X (0..7) : Bit(a[p[1]], p[2]) # Bit(b[p[1]], p[2])})

\* hammingDistanceBits throws on two lengths and otherwise counts the
\* differing bit positions, the same for (b, a), none for equal buffers
HammingCounts ==
    last.op = "hamming" =>
        IF Len(last.a) # Len(last.b)
        THEN last.result.threw /\ last.swapped.threw
        ELSE /\ ~last.result.threw
             /\ last.result.value = DiffBits(last.a, last.b)
             /\ last.swapped = last.result
             /\ (last.a = last.b => last.result.value = 0)

\* the percentage is a number, count * 100 / (8 * length), within 0..100
PercentInRange ==
    /\ ~last.result.threw
    /\ ~last.result.nan
    /\ last.result.num * (8 * Len(last.a)) = DiffBits(last.a, last.b) * 100 * last.result.den
    /\ 0 <= last.result.num
    /\ last.result.num <= 100 * last.result.den

\* C35 as stated: hammingDistanceBits throws on two lengths and otherwise
\* counts the differing bits, and bitDifferencePercent of two buffers of one
\* length is that count times 100 over 8 times the byte length, within 0..100
C35_HammingAndPercent ==
    /\ HammingCounts
    /\ (last.op = "percent" /\ Len(last.a) = Len(last.b)) => PercentInRange

\* C35, for buffers that hold a byte: hammingDistanceBits as stated, and
\* bitDifferencePercent of two buffers of one length, not empty, is the count
\* times 100 over 8 times the byte length, within 0..100; of two empty
\* buffers it is 0 / 0, not a number; of two lengths it throws
C35_HammingAndPercentNonEmpty ==
    /\ HammingCounts
    /\ last.op = "percent" =>
          IF Len(last.a) # Len(last.b) THEN last.result.threw
          ELSE IF Len(last.a) = 0 THEN ~last.result.threw /\ last.result.nan
          ELSE PercentInRange

\* two buffers of two bytes that differ in some bits but not all were measured
C35_Witness ==
    /\ last.op = "percent"
    /\ Len(last.a) = 2 /\ Len(last.b) = 2
    /\ ~last.result.threw /\ ~last.result.nan
    /\ 0 < last.result.num /\ last.result.num < 100 * last.result.den

\* the result has the input's length and differs from it in one bit, and the
\* input is as it was
OneBitFlipped ==
    /\ Len(last.result.copy) = Len(last.given)
    /\ DiffBits(last.given, last.result.copy) = 1
    /\ last.result.data = last.given

\* C36 as stated: for every buffer flipRandomBit returns a buffer of the same
\* length that differs from the input in exactly one bit, the input unchanged
C36_ExactlyOneBit == last.op = "flip" => OneBitFlipped

\* C36, for buffers that hold a byte: the result has the same length and
\* differs in exactly one bit, the input unchanged; an empty buffer comes
\* back empty, no bit flipped
C36_ExactlyOneBitNonEmpty ==
    last.op = "flip" =>
        IF Len(last.given) = 0 THEN last.result.copy = <<>> /\ last.result.data = <<>>
        ELSE OneBitFlipped

\* the highest bit of the last of three bytes was set and is now cleared
C36_Witness ==
    /\ last.op = "flip"
    /\ Len(last.given) = 3
    /\ last.byteIndex = 2 /\ last.bitIndex = 7
    /\ last.given[3] = 255
    /\ last.result.copy[3] = 127

-----------------------------------------------------------------------------
(* C37: the base64 codec *)

\* C37: base64ToArrayBuffer(arrayBufferToBase64(b)) is b for every buffer b,
\* and the text has four characters for every three bytes begun
C37_Base64RoundTrip ==
    last.op = "codec" =>
        /\ last.decoded = last.given
        /\ Len(last.base64) = Base64Len(Len(last.given))

\* a buffer whose text is padded was encoded and decoded
C37_Witness ==
    /\ last.op = "codec"
    /\ Len(last.given) = 1
    /\ last.given[1] = 255
    /\ last.base64[3] = PadChar
    /\ last.decoded = <<255>>

====
